---- MODULE Spec2Model ----
(***************************************************************************)
(* The Flip 7 game engine (flip_7/core/engine.py) with the rules it calls  *)
(* (flip_7/core/rules.py), the deck (flip_7/core/deck.py) and the state    *)
(* and event records (flip_7/data/models.py, flip_7/data/events.py).       *)
(*                                                                         *)
(* The engine is a single-threaded state mutator: every public method is   *)
(* one action.  The methods call each other (a stay, a Freeze or a bust    *)
(* may run end_round, end_round runs _check_game_end), so each method is   *)
(* written as an operator from an engine value E = [gs, ev] (GameState,    *)
(* list of logged events) to the engine value it leaves behind, and the    *)
(* actions apply these operators to the variables.                         *)
(***************************************************************************)
EXTENDS Integers, Sequences, FiniteSets, Bags, TLC

VARIABLES
    game_state,   \* GameEngine.game_state: None or Some(GameState)
    events,       \* GameEngine.event_logger.events, the list of logged events
    result,       \* outcome of the last call: "ok" or the message of the raised error
    session_events  \* number of events of the log appended since the session started

vars == <<game_state, events, result, session_events>>

\* Optional[...] values: None is the empty tuple, a present value a 1-tuple.
None == <<>>
Some(x) == <<x>>

\* ------------------------------------------------------------------------
\* Bounds
\* ------------------------------------------------------------------------
\* Number of events one session may append to the log.
MaxEvents == 2
\* Number of cards of the deck list that create_deck puts into the deck.
DeckSize == 2

\* ------------------------------------------------------------------------
\* Program constants (rules.py)
\* ------------------------------------------------------------------------
WINNING_SCORE == 200
FLIP_7_BONUS_POINTS == 15
FLIP_7_REQUIRED_CARDS == 7

\* ------------------------------------------------------------------------
\* Cards (models.py).  A card is a frozen dataclass: two cards are equal
\* iff all fields, card_id included, are equal.
\* ------------------------------------------------------------------------
NumberCard(v, id) ==
    [card_type |-> "number", value |-> v, action_type |-> "none",
     modifier_type |-> "none", card_id |-> id]

ActionCard(t, id) ==
    [card_type |-> "action", value |-> 0, action_type |-> t,
     modifier_type |-> "none", card_id |-> id]

ModifierCard(t, v, id) ==
    [card_type |-> "modifier", value |-> v, action_type |-> "none",
     modifier_type |-> t, card_id |-> id]

\* The players of the game, in the order of GameState.players (which is also
\* the iteration order of every player_states dict).
PlayerIds == <<"p1", "p2">>
Players == {PlayerIds[i] : i \in 1..Len(PlayerIds)}

\* ------------------------------------------------------------------------
\* Helpers on sequences and bags
\* ------------------------------------------------------------------------
RECURSIVE SumValues(_)
SumValues(cards) ==
    IF cards = <<>> THEN 0 ELSE Head(cards).value + SumValues(Tail(cards))

RECURSIVE SeqToBag(_)
SeqToBag(s) ==
    IF s = <<>> THEN EmptyBag ELSE SetToBag({Head(s)}) (+) SeqToBag(Tail(s))

RECURSIVE Concat(_)
Concat(ss) ==
    IF ss = <<>> THEN <<>> ELSE Head(ss) \o Concat(Tail(ss))

MaxOf(S) == CHOOSE m \in S : \A x \in S : x <= m

\* list.remove(x): drops the first element equal to x.
RemoveFirst(s, x) ==
    LET i == CHOOSE k \in 1..Len(s) : s[k] = x /\ \A j \in 1..(k-1) : s[j] # x
    IN  SubSeq(s, 1, i-1) \o SubSeq(s, i+1, Len(s))

InSeq(x, s) == \E i \in 1..Len(s) : s[i] = x

\* ------------------------------------------------------------------------
\* rules.py
\* ------------------------------------------------------------------------
IsNumber(c) == c.card_type = "number"
IsAction(c) == c.card_type = "action"
IsModifier(c) == c.card_type = "modifier"
IsSecondChance(c) == IsAction(c) /\ c.action_type = "second_chance"

\* Variant: the Flip 7 bonus is given for seven or more number cards.
calculate_score_flip_7_or_more(cards) ==
    LET number_cards == SelectSeq(cards, IsNumber)
        modifier_cards == SelectSeq(cards, IsModifier)
        base_score == SumValues(number_cards)
        IsPlus(m) == m.modifier_type # "multiply_2"
        bonus_points == SumValues(SelectSeq(modifier_cards, IsPlus))
        has_multiplier ==
            \E i \in 1..Len(modifier_cards) :
                modifier_cards[i].modifier_type = "multiply_2"
        multiplier == IF has_multiplier THEN 2 ELSE 1
        has_flip_7 == Len(number_cards) >= FLIP_7_REQUIRED_CARDS
        flip_7_bonus == IF has_flip_7 THEN FLIP_7_BONUS_POINTS ELSE 0
    IN  [base_score |-> base_score,
         bonus_points |-> bonus_points,
         multiplier |-> multiplier,
         flip_7_bonus |-> flip_7_bonus,
         final_score |-> (base_score + bonus_points) * multiplier + flip_7_bonus,
         has_flip_7 |-> has_flip_7,
         number_card_count |-> Len(number_cards)]

calculate_score(cards) ==
    LET number_cards == SelectSeq(cards, IsNumber)
        modifier_cards == SelectSeq(cards, IsModifier)
        base_score == SumValues(number_cards)
        IsPlus(m) == m.modifier_type # "multiply_2"
        bonus_points == SumValues(SelectSeq(modifier_cards, IsPlus))
        has_multiplier ==
            \E i \in 1..Len(modifier_cards) :
                modifier_cards[i].modifier_type = "multiply_2"
        multiplier == IF has_multiplier THEN 2 ELSE 1
        has_flip_7 == Len(number_cards) = FLIP_7_REQUIRED_CARDS
        flip_7_bonus == IF has_flip_7 THEN FLIP_7_BONUS_POINTS ELSE 0
    IN  [base_score |-> base_score,
         bonus_points |-> bonus_points,
         multiplier |-> multiplier,
         flip_7_bonus |-> flip_7_bonus,
         final_score |-> (base_score + bonus_points) * multiplier + flip_7_bonus,
         has_flip_7 |-> has_flip_7,
         number_card_count |-> Len(number_cards)]

check_for_duplicate_cards(cards) ==
    LET number_cards == SelectSeq(cards, IsNumber)
        card_values == {number_cards[i].value : i \in 1..Len(number_cards)}
    IN  Len(number_cards) # Cardinality(card_values)

\* Variant: the first player at or above WINNING_SCORE, not the highest.
check_win_condition_first_reaching(player_states) ==
    LET Reached(p) == player_states[p].total_score >= WINNING_SCORE
        winners == SelectSeq(PlayerIds, Reached)
    IN  IF winners # <<>> THEN Some(winners[1]) ELSE None

check_win_condition(player_states) ==
    LET max_score == MaxOf({player_states[p].total_score : p \in Players})
        IsMax(p) == player_states[p].total_score = max_score
        winners == SelectSeq(PlayerIds, IsMax)
    IN  IF max_score >= WINNING_SCORE
        THEN (IF winners # <<>> THEN Some(winners[1]) ELSE None)
        ELSE None

get_round_winners(round_state) ==
    IF ~round_state.is_complete THEN <<>>
    ELSE LET NotBusted(p) == ~round_state.player_states[p].is_busted
             active_players == SelectSeq(PlayerIds, NotBusted)
         IN  IF active_players = <<>> THEN <<>>
             ELSE LET max_score ==
                          MaxOf({round_state.player_states[active_players[i]].round_score :
                                     i \in 1..Len(active_players)})
                      IsMax(p) == round_state.player_states[p].round_score = max_score
                  IN  SelectSeq(active_players, IsMax)

\* ValidationResult(is_valid, error_message)
Valid == [is_valid |-> TRUE, error_message |-> "ok"]
Invalid(msg) == [is_valid |-> FALSE, error_message |-> msg]

\* Variant: staying is not blocked by a Flip Three that is still owed.
validate_player_can_stay_during_flip_three(player_state, round_state) ==
    IF player_state.has_stayed THEN Invalid("Player has already stayed")
    ELSE IF player_state.is_busted THEN Invalid("Player is busted and cannot stay")
    ELSE Valid

validate_player_can_stay(player_state, round_state) ==
    IF player_state.has_stayed THEN Invalid("Player has already stayed")
    ELSE IF player_state.is_busted THEN Invalid("Player is busted and cannot stay")
    ELSE IF player_state.flip_three_active /\ player_state.flip_three_count > 0
         THEN Invalid("Player must accept more cards (Flip Three active)")
    ELSE Valid

\* Variant: a card may be taken although the deck is empty.
validate_player_can_hit_on_empty_deck(player_state, round_state) ==
    IF player_state.has_stayed THEN Invalid("Player has already stayed")
    ELSE IF player_state.is_busted
         THEN Invalid("Player is busted and cannot take more cards")
    ELSE Valid

validate_player_can_hit(player_state, round_state) ==
    IF player_state.has_stayed THEN Invalid("Player has already stayed")
    ELSE IF player_state.is_busted
         THEN Invalid("Player is busted and cannot take more cards")
    ELSE IF round_state.cards_remaining_in_deck <= 0 THEN Invalid("Deck is empty")
    ELSE Valid

\* Variant: the hand is searched for the card before the flag is looked at.
validate_second_chance_usage_hand_first(player_state, card_to_discard) ==
    IF ~InSeq(card_to_discard, player_state.cards_in_hand)
    THEN Invalid("Card to discard is not in player's hand")
    ELSE IF ~player_state.has_second_chance
         THEN Invalid("Player does not have Second Chance card")
    ELSE LET number_cards == SelectSeq(player_state.cards_in_hand, IsNumber)
             duplicate_count ==
                 Cardinality({i \in 1..Len(number_cards) :
                                  number_cards[i].value = card_to_discard.value})
         IN  IF duplicate_count < 2 THEN Invalid("No duplicate found for card value")
             ELSE Valid

validate_second_chance_usage(player_state, card_to_discard) ==
    IF ~player_state.has_second_chance
    THEN Invalid("Player does not have Second Chance card")
    ELSE IF ~InSeq(card_to_discard, player_state.cards_in_hand)
         THEN Invalid("Card to discard is not in player's hand")
    ELSE LET number_cards == SelectSeq(player_state.cards_in_hand, IsNumber)
             duplicate_count ==
                 Cardinality({i \in 1..Len(number_cards) :
                                  number_cards[i].value = card_to_discard.value})
         IN  IF duplicate_count < 2 THEN Invalid("No duplicate found for card value")
             ELSE Valid

\* Variant: a total at the target ends the round as well.
check_round_end_condition_at_target(round_state) ==
    \/ \A p \in Players :
           round_state.player_states[p].has_stayed
           \/ round_state.player_states[p].is_busted
    \/ round_state.cards_remaining_in_deck <= 0
    \/ \E p \in Players : round_state.player_states[p].total_score >= WINNING_SCORE

\* Variant: a busted player ends the round as well.
check_round_end_condition_any_bust(round_state) ==
    \/ \A p \in Players :
           round_state.player_states[p].has_stayed
           \/ round_state.player_states[p].is_busted
    \/ round_state.cards_remaining_in_deck <= 0
    \/ \E p \in Players : round_state.player_states[p].is_busted

check_round_end_condition(round_state) ==
    LET all_done ==
            \A p \in Players :
                round_state.player_states[p].has_stayed
                \/ round_state.player_states[p].is_busted
    IN  IF all_done THEN TRUE
        ELSE IF round_state.cards_remaining_in_deck <= 0 THEN TRUE
        ELSE FALSE

\* Variant: "all stayed" is looked at before "player busted".
determine_round_end_reason_all_stayed_first(round_state) ==
    IF \A p \in Players :
           round_state.player_states[p].has_stayed
           \/ round_state.player_states[p].is_busted
    THEN Some("all_stayed")
    ELSE IF \E p \in Players : round_state.player_states[p].is_busted
         THEN Some("player_busted")
    ELSE IF round_state.cards_remaining_in_deck <= 0 THEN Some("deck_exhausted")
    ELSE None

\* Variant: an exhausted deck is looked at first.
determine_round_end_reason_deck_first(round_state) ==
    IF round_state.cards_remaining_in_deck <= 0 THEN Some("deck_exhausted")
    ELSE IF \E p \in Players : round_state.player_states[p].is_busted
         THEN Some("player_busted")
    ELSE IF \A p \in Players :
                round_state.player_states[p].has_stayed
                \/ round_state.player_states[p].is_busted
         THEN Some("all_stayed")
    ELSE None

determine_round_end_reason(round_state) ==
    IF \E p \in Players : round_state.player_states[p].is_busted
    THEN Some("player_busted")
    ELSE IF \A p \in Players :
                round_state.player_states[p].has_stayed
                \/ round_state.player_states[p].is_busted
         THEN Some("all_stayed")
    ELSE IF round_state.cards_remaining_in_deck <= 0 THEN Some("deck_exhausted")
    ELSE None

\* ------------------------------------------------------------------------
\* deck.py.  The deck list is shuffled by random.shuffle and is read only by
\* _remove_card_from_deck, which takes the first card matching a face: the
\* deck is kept as the bag of its cards and "the first matching card" is any
\* matching card of the bag.
\* ------------------------------------------------------------------------
\* Cards of the kinds create_deck builds (number and action cards, some of
\* equal face), with card ids 1, 2, ...; create_deck puts the first DeckSize
\* of them into the deck.
DeckList ==
    <<NumberCard(5, 1), ActionCard("second_chance", 2), NumberCard(5, 3),
      NumberCard(7, 4), ActionCard("freeze", 5), NumberCard(5, 6)>>

create_deck == SubSeq(DeckList, 1, DeckSize)

shuffle_deck(deck) == SeqToBag(deck)

\* ------------------------------------------------------------------------
\* models.py: PlayerState, RoundState, GameState
\* ------------------------------------------------------------------------
PlayerState(player_id) ==
    [player_id |-> player_id,
     cards_in_hand |-> <<>>,
     total_score |-> 0,
     round_score |-> 0,
     has_stayed |-> FALSE,
     is_busted |-> FALSE,
     has_second_chance |-> FALSE,
     flip_three_active |-> FALSE,
     flip_three_count |-> 0]

RoundState(round_number, dealer_id, player_states, cards_remaining_in_deck) ==
    [round_number |-> round_number,
     dealer_id |-> dealer_id,
     player_states |-> player_states,
     cards_remaining_in_deck |-> cards_remaining_in_deck,
     is_complete |-> FALSE,
     end_reason |-> None,
     winner_ids |-> <<>>]

GameState(game_id, deck) ==
    [game_id |-> game_id,
     players |-> PlayerIds,
     current_round |-> None,
     round_history |-> <<>>,
     is_complete |-> FALSE,
     winner_id |-> None,
     deck |-> deck,
     discard_pile |-> <<>>]

\* ------------------------------------------------------------------------
\* Engine values: E.gs is the GameState (never None here), E.ev the log.
\* ------------------------------------------------------------------------
CurrentRound(E) == E.gs.current_round[1]

\* Variant: the new event takes the place of the last one.
Log_over_last(E, event) ==
    [E EXCEPT !.ev = IF @ = <<>> THEN <<event>> ELSE [@ EXCEPT ![Len(@)] = event]]

\* event_logger.log_event(event)
Log(E, event) == [E EXCEPT !.ev = Append(@, event)]

LastRound(E) == E.gs.round_history[Len(E.gs.round_history)]

\* The PlayerState object a method holds in a local variable stays the same
\* object when end_round moves the round into round_history.
PlayerObject(E, p) ==
    IF E.gs.current_round # None THEN CurrentRound(E).player_states[p]
    ELSE LastRound(E).player_states[p]

SetPlayerObject(E, p, ps) ==
    IF E.gs.current_round # None
    THEN [E EXCEPT !.gs.current_round[1].player_states[p] = ps]
    ELSE [E EXCEPT !.gs.round_history[Len(E.gs.round_history)].player_states[p] = ps]

\* ------------------------------------------------------------------------
\* engine.py: private methods
\* ------------------------------------------------------------------------
_check_game_end(E) ==
    IF E.gs.round_history = <<>> THEN E
    ELSE LET player_states == LastRound(E).player_states
             winner_id == check_win_condition(player_states)
         IN  IF winner_id # None
             THEN Log([E EXCEPT !.gs.is_complete = TRUE, !.gs.winner_id = winner_id],
                      [event_type |-> "game_ended",
                       winner_id |-> winner_id[1],
                       final_scores |-> [p \in Players |-> player_states[p].total_score],
                       total_rounds |-> Len(E.gs.round_history)])
             ELSE E

\* Variant: the discard pile is copied into the deck and kept.
_reshuffle_deck_keeping_discard(E) ==
    IF Len(E.gs.discard_pile) = 0 THEN E
    ELSE LET shuffled_discard == shuffle_deck(E.gs.discard_pile)
             round_number == IF E.gs.current_round # None
                             THEN CurrentRound(E).round_number ELSE 0
         IN  Log([E EXCEPT !.gs.deck = shuffled_discard],
                 [event_type |-> "deck_reshuffled",
                  round_number |-> round_number,
                  cards_reshuffled |-> BagCardinality(shuffled_discard)])

_reshuffle_deck(E) ==
    IF Len(E.gs.discard_pile) = 0 THEN E
    ELSE LET shuffled_discard == shuffle_deck(E.gs.discard_pile)
             round_number == IF E.gs.current_round # None
                             THEN CurrentRound(E).round_number ELSE 0
         IN  Log([E EXCEPT !.gs.deck = shuffled_discard, !.gs.discard_pile = <<>>],
                 [event_type |-> "deck_reshuffled",
                  round_number |-> round_number,
                  cards_reshuffled |-> BagCardinality(shuffled_discard)])

_update_player_score(E, player_id) ==
    LET player_state == CurrentRound(E).player_states[player_id]
        has_duplicates == check_for_duplicate_cards(player_state.cards_in_hand)
    IN  IF has_duplicates /\ ~player_state.has_second_chance
        THEN SetPlayerObject(E, player_id,
                 [player_state EXCEPT !.is_busted = TRUE, !.round_score = 0])
        ELSE SetPlayerObject(E, player_id,
                 [player_state EXCEPT
                      !.round_score = calculate_score(player_state.cards_in_hand).final_score])

\* Variant: the hand of a busted player is banked at round end as well.
end_round_finalized_busted_too(round_state) ==
    [round_state EXCEPT !.player_states =
        [p \in Players |->
            LET player_state == round_state.player_states[p]
                final_score == calculate_score(player_state.cards_in_hand).final_score
            IN  IF ~player_state.has_stayed
                THEN [player_state EXCEPT !.round_score = final_score,
                                          !.total_score = @ + final_score]
                ELSE player_state]]

end_round_finalized(round_state) ==
    [round_state EXCEPT !.player_states =
        [p \in Players |->
            LET player_state == round_state.player_states[p]
                final_score == calculate_score(player_state.cards_in_hand).final_score
            IN  IF ~player_state.has_stayed /\ ~player_state.is_busted
                THEN [player_state EXCEPT !.round_score = final_score,
                                          !.total_score = @ + final_score]
                ELSE player_state]]

end_round_body(E) ==
    LET marked == [CurrentRound(E) EXCEPT !.is_complete = TRUE]
        reasoned == [marked EXCEPT !.end_reason = determine_round_end_reason(marked)]
        won == [reasoned EXCEPT !.winner_ids = get_round_winners(reasoned)]
        current_round == end_round_finalized(won)
        logged == Log(E, [event_type |-> "round_ended",
                          round_number |-> current_round.round_number,
                          end_reason |-> current_round.end_reason,
                          player_scores |->
                              [p \in Players |-> current_round.player_states[p].round_score],
                          winner_ids |-> current_round.winner_ids])
        hands == [i \in 1..Len(PlayerIds) |->
                      current_round.player_states[PlayerIds[i]].cards_in_hand]
        moved == [logged EXCEPT
                      !.gs.discard_pile = @ \o Concat(hands),
                      !.gs.round_history = Append(@, current_round),
                      !.gs.current_round = None]
    IN  _check_game_end(moved)

\* Variant: PlayerBusted is logged after the round was ended.
_handle_player_bust_logged_last(E, player_id) ==
    LET player_state == CurrentRound(E).player_states[player_id]
        event == [event_type |-> "player_busted",
                  player_id |-> player_id,
                  round_number |-> CurrentRound(E).round_number,
                  total_score |-> player_state.total_score + player_state.round_score]
    IN  IF check_round_end_condition(CurrentRound(E)) THEN Log(end_round_body(E), event)
        ELSE Log(E, event)

_handle_player_bust(E, player_id) ==
    LET player_state == CurrentRound(E).player_states[player_id]
        logged == Log(E, [event_type |-> "player_busted",
                          player_id |-> player_id,
                          round_number |-> CurrentRound(E).round_number,
                          total_score |-> player_state.total_score + player_state.round_score])
    IN  IF check_round_end_condition(CurrentRound(logged)) THEN end_round_body(logged)
        ELSE logged

_cards_match(card1, card2) ==
    IF card1.card_type # card2.card_type THEN FALSE
    ELSE IF IsNumber(card1) /\ IsNumber(card2) THEN card1.value = card2.value
    ELSE IF IsModifier(card1) /\ IsModifier(card2)
         THEN card1.modifier_type = card2.modifier_type
    ELSE IF IsAction(card1) /\ IsAction(card2)
         THEN card1.action_type = card2.action_type
    ELSE FALSE

\* The cards _remove_card_from_deck may pop for a requested card: None when
\* no card of the deck matches, else the first match of the shuffled list.
_remove_card_from_deck(deck, card) ==
    LET matching == {deck_card \in BagToSet(deck) : _cards_match(card, deck_card)}
    IN  IF matching = {} THEN {None} ELSE {Some(deck_card) : deck_card \in matching}

\* Variant: the Freeze records the round's score and banks nothing.
frozen_state_not_banked(target_state, final_score) ==
    [target_state EXCEPT !.has_stayed = TRUE,
                         !.round_score = final_score]

\* has_stayed, round_score and total_score as a Freeze sets them.
frozen_state(target_state, final_score) ==
    [target_state EXCEPT !.has_stayed = TRUE,
                         !.round_score = final_score,
                         !.total_score = @ + final_score]

\* Variant: a count that is still owed is kept.
flip_three_state_keeping_count(target_state) ==
    [target_state EXCEPT !.flip_three_active = TRUE,
                         !.flip_three_count = IF @ > 0 THEN @ ELSE 3]

\* flip_three_active and flip_three_count as a Flip Three sets them.
flip_three_state(target_state) ==
    [target_state EXCEPT !.flip_three_active = TRUE,
                         !.flip_three_count = 3]

_apply_action_card(E, target_player_id, card, original_player_id) ==
    LET target_state == CurrentRound(E).player_states[target_player_id]
        by_other == original_player_id # None
                    /\ original_player_id # Some(target_player_id)
        original_name == IF by_other THEN original_player_id ELSE None
        applied(action_type) ==
            [event_type |-> "action_card_applied",
             player_id |-> target_player_id,
             action_type |-> action_type,
             original_name |-> original_name]
    IN  IF card.action_type = "freeze"
        THEN LET final_score == calculate_score(target_state.cards_in_hand).final_score
                 frozen == SetPlayerObject(E, target_player_id,
                               frozen_state(target_state, final_score))
                 logged == Log(frozen, applied("freeze"))
             IN  IF check_round_end_condition(CurrentRound(logged))
                 THEN end_round_body(logged) ELSE logged
        ELSE IF card.action_type = "flip_three"
        THEN Log(SetPlayerObject(E, target_player_id, flip_three_state(target_state)),
                 applied("flip_three"))
        ELSE IF card.action_type = "second_chance"
        THEN IF ~target_state.has_second_chance
             THEN LET flagged == SetPlayerObject(E, target_player_id,
                                     [target_state EXCEPT !.has_second_chance = TRUE])
                      original_hand ==
                          CurrentRound(E).player_states[original_player_id[1]].cards_in_hand
                      moved ==
                          IF by_other /\ \E i \in 1..Len(original_hand) :
                                             IsSecondChance(original_hand[i])
                          THEN LET sc_card_in_hand ==
                                       SelectSeq(original_hand, IsSecondChance)[1]
                               IN  [flagged EXCEPT
                                      !.gs.current_round[1].player_states[original_player_id[1]].cards_in_hand =
                                          RemoveFirst(@, sc_card_in_hand),
                                      !.gs.current_round[1].player_states[target_player_id].cards_in_hand =
                                          Append(@, sc_card_in_hand)]
                          ELSE flagged
                  IN  Log(moved, applied("second_chance"))
             ELSE E
        ELSE E

\* ------------------------------------------------------------------------
\* engine.py: public methods.  G = [gs, ev] holds the engine's two fields
\* (gs is None before start_new_game); a call yields the fields it leaves
\* behind and its result, "ok" or the message of the error it raised.
\* ------------------------------------------------------------------------
\* Past its first check a method reads fields of current_round: on None that
\* raises AttributeError before anything was changed.
Raise(G, msg) == [gs |-> G.gs, ev |-> G.ev, result |-> msg]
Return(E) == [gs |-> Some(E.gs), ev |-> E.ev, result |-> "ok"]
Engine(G) == [gs |-> G.gs[1], ev |-> G.ev]
\* Variant: only a missing game counts as "no active round".
NoActiveRound_without_game(G) == G.gs = None

NoActiveRound(G) == G.gs = None \/ G.gs[1].current_round = None

\* start_new_game assigns both fields of the engine, whatever they held.
start_new_game(G, game_id) ==
    LET replaced == [G EXCEPT
                        !.gs = Some(GameState(game_id, shuffle_deck(create_deck))),
                        !.ev = <<[event_type |-> "game_started",
                                  game_id |-> game_id,
                                  player_ids |-> PlayerIds]>>]
    IN  [gs |-> replaced.gs, ev |-> replaced.ev, result |-> "ok"]

\* Variant: only a complete game without a winner is refused.
game_is_complete_ignored(G) == G.gs[1].is_complete /\ G.gs[1].winner_id = None

\* The second check of start_new_round.
game_is_complete(G) == G.gs[1].is_complete

\* Variant: the rotation starts one player late.
dealer_rotation_from_round_number(round_number, players) ==
    round_number % Len(players)

\* The dealer's index in the player list (0-based).
dealer_rotation(round_number, players) == (round_number - 1) % Len(players)

\* Variant: the score of the last round is carried over, not the total.
round_player_state_with_round_score(E, p) ==
    IF E.gs.round_history # <<>>
    THEN [PlayerState(p) EXCEPT
             !.total_score = LastRound(E).player_states[p].round_score]
    ELSE PlayerState(p)

\* The state start_new_round gives a player: new, with the total of the last
\* completed round.
round_player_state(E, p) ==
    IF E.gs.round_history # <<>>
    THEN [PlayerState(p) EXCEPT
             !.total_score = LastRound(E).player_states[p].total_score]
    ELSE PlayerState(p)

start_new_round(G) ==
    IF G.gs = None THEN Raise(G, "Game has not been started")
    ELSE IF game_is_complete(G) THEN Raise(G, "Game is already complete")
    ELSE LET E == Engine(G)
             round_number == Len(E.gs.round_history) + 1
             dealer_index == dealer_rotation(round_number, E.gs.players)
             dealer == E.gs.players[dealer_index + 1]
             player_states ==
                 [p \in Players |-> round_player_state(E, p)]
             round_state == RoundState(round_number, dealer, player_states,
                                       BagCardinality(E.gs.deck))
         IN  Return(Log([E EXCEPT !.gs.current_round = Some(round_state)],
                        [event_type |-> "round_started",
                         round_number |-> round_number,
                         dealer_id |-> dealer]))

\* Variant: every dealt card counts towards a Flip Three, Action cards too.
flip_three_counted_any_card(player_state, flip_three_was_active, card_from_deck) ==
    IF flip_three_was_active /\ player_state.flip_three_count > 0
    THEN [player_state EXCEPT
             !.flip_three_count = @ - 1,
             !.flip_three_active =
                 IF player_state.flip_three_count - 1 = 0 THEN FALSE ELSE @]
    ELSE player_state

\* Variant: the effect stays active when the count reaches zero.
flip_three_counted_never_cleared(player_state, flip_three_was_active, card_from_deck) ==
    IF flip_three_was_active /\ player_state.flip_three_count > 0
    THEN IF ~IsAction(card_from_deck)
         THEN [player_state EXCEPT !.flip_three_count = @ - 1]
         ELSE player_state
    ELSE player_state

\* The Flip Three counter of the player after a card was dealt to them.
flip_three_counted(player_state, flip_three_was_active, card_from_deck) ==
    IF flip_three_was_active /\ player_state.flip_three_count > 0
    THEN IF ~IsAction(card_from_deck)
         THEN [player_state EXCEPT
                  !.flip_three_count = @ - 1,
                  !.flip_three_active =
                      IF player_state.flip_three_count - 1 = 0 THEN FALSE ELSE @]
         ELSE player_state
    ELSE player_state

deal_card_to_player(G, player_id, card, removed) ==
    IF NoActiveRound(G) THEN Raise(G, "No active round")
    ELSE IF G.gs[1].current_round = None THEN Raise(G, "AttributeError")
    ELSE
    LET E == Engine(G)
        validation == validate_player_can_hit(CurrentRound(E).player_states[player_id],
                                              CurrentRound(E))
    IN  IF ~validation.is_valid THEN Raise(G, validation.error_message)
        ELSE
        LET card_from_deck == IF removed = None THEN card ELSE removed[1]
            deck == IF removed = None THEN E.gs.deck
                    ELSE E.gs.deck (-) SetToBag({removed[1]})
            flip_three_was_active ==
                CurrentRound(E).player_states[player_id].flip_three_active
            dealt == [E EXCEPT
                        !.gs.deck = deck,
                        !.gs.current_round[1].player_states[player_id].cards_in_hand =
                            Append(@, card_from_deck),
                        !.gs.current_round[1].cards_remaining_in_deck = BagCardinality(deck)]
            shuffled ==
                IF BagCardinality(dealt.gs.deck) = 0 /\ Len(dealt.gs.discard_pile) > 0
                THEN LET reshuffled == _reshuffle_deck(dealt)
                     IN  [reshuffled EXCEPT
                            !.gs.current_round[1].cards_remaining_in_deck =
                                BagCardinality(reshuffled.gs.deck)]
                ELSE dealt
            scored == _update_player_score(shuffled, player_id)
            logged == Log(scored,
                          [event_type |-> "card_dealt",
                           player_id |-> player_id,
                           card |-> card,
                           cards_in_hand_count |->
                               Len(CurrentRound(scored).player_states[player_id].cards_in_hand)])
            busted == IF CurrentRound(logged).player_states[player_id].is_busted
                      THEN _handle_player_bust(logged, player_id)
                      ELSE logged
            counted == SetPlayerObject(busted, player_id,
                           flip_three_counted(PlayerObject(busted, player_id),
                                              flip_three_was_active, card_from_deck))
        IN  Return(counted)

\* Variant: a second Second Chance aimed at its holder is not refused.
apply_action_card_effect_unchecked_second_chance(G, card, target_player_id, original_player_id) ==
    IF NoActiveRound(G) THEN Raise(G, "No active round")
    ELSE IF G.gs[1].current_round = None THEN Raise(G, "AttributeError")
    ELSE
    LET E == Engine(G)
        target_state == CurrentRound(E).player_states[target_player_id]
    IN  IF target_state.has_stayed /\ card.action_type \in {"freeze", "flip_three"}
        THEN Raise(G, "Cannot apply to player who has already stayed")
        ELSE Return(_apply_action_card(E, target_player_id, card, original_player_id))

\* Variant: only a Freeze is refused for a target who has stayed.
apply_action_card_effect_flip_three_on_stayed(G, card, target_player_id, original_player_id) ==
    IF NoActiveRound(G) THEN Raise(G, "No active round")
    ELSE IF G.gs[1].current_round = None THEN Raise(G, "AttributeError")
    ELSE
    LET E == Engine(G)
        target_state == CurrentRound(E).player_states[target_player_id]
    IN  IF target_state.has_stayed /\ card.action_type \in {"freeze"}
        THEN Raise(G, "Cannot apply to player who has already stayed")
        ELSE IF card.action_type = "second_chance"
                /\ original_player_id = Some(target_player_id)
                /\ CurrentRound(E).player_states[original_player_id[1]].has_second_chance
        THEN Raise(G, "Player already has a Second Chance card")
        ELSE Return(_apply_action_card(E, target_player_id, card, original_player_id))

apply_action_card_effect(G, card, target_player_id, original_player_id) ==
    IF NoActiveRound(G) THEN Raise(G, "No active round")
    ELSE IF G.gs[1].current_round = None THEN Raise(G, "AttributeError")
    ELSE
    LET E == Engine(G)
        target_state == CurrentRound(E).player_states[target_player_id]
    IN  IF target_state.has_stayed /\ card.action_type \in {"freeze", "flip_three"}
        THEN Raise(G, "Cannot apply to player who has already stayed")
        ELSE IF card.action_type = "second_chance"
                /\ original_player_id = Some(target_player_id)
                /\ CurrentRound(E).player_states[original_player_id[1]].has_second_chance
        THEN Raise(G, "Player already has a Second Chance card")
        ELSE Return(_apply_action_card(E, target_player_id, card, original_player_id))

player_hit(G, player_id) ==
    IF NoActiveRound(G) THEN Raise(G, "No active round")
    ELSE IF G.gs[1].current_round = None THEN Raise(G, "AttributeError")
    ELSE
    LET E == Engine(G)
        validation == validate_player_can_hit(CurrentRound(E).player_states[player_id],
                                              CurrentRound(E))
    IN  IF ~validation.is_valid THEN Raise(G, validation.error_message)
        ELSE Return(Log(E, [event_type |-> "player_hit",
                            player_id |-> player_id,
                            round_number |-> CurrentRound(E).round_number]))

\* Variant: the stay overwrites total_score with the round's score.
stayed_state_total_overwritten(player_state, final_score) ==
    [player_state EXCEPT !.has_stayed = TRUE,
                         !.round_score = final_score,
                         !.total_score = final_score]

\* has_stayed, round_score and total_score as player_stay sets them.
stayed_state(player_state, final_score) ==
    [player_state EXCEPT !.has_stayed = TRUE,
                         !.round_score = final_score,
                         !.total_score = @ + final_score]

player_stay(G, player_id) ==
    IF NoActiveRound(G) THEN Raise(G, "No active round")
    ELSE IF G.gs[1].current_round = None THEN Raise(G, "AttributeError")
    ELSE
    LET E == Engine(G)
        current_round == CurrentRound(E)
        player_state == current_round.player_states[player_id]
        validation == validate_player_can_stay(player_state, current_round)
    IN  IF ~validation.is_valid THEN Raise(G, validation.error_message)
        ELSE
        LET score_breakdown == calculate_score(player_state.cards_in_hand)
            stayed == SetPlayerObject(E, player_id,
                          stayed_state(player_state, score_breakdown.final_score))
            logged == Log(stayed,
                          [event_type |-> "player_stayed",
                           player_id |-> player_id,
                           round_number |-> current_round.round_number,
                           round_score |-> score_breakdown.final_score,
                           total_score |-> player_state.total_score
                                           + score_breakdown.final_score,
                           has_flip_7 |-> score_breakdown.has_flip_7])
        IN  IF check_round_end_condition(CurrentRound(logged))
            THEN Return(end_round_body(logged)) ELSE Return(logged)

use_second_chance(G, player_id, card_to_discard) ==
    IF NoActiveRound(G) THEN Raise(G, "No active round")
    ELSE IF G.gs[1].current_round = None THEN Raise(G, "AttributeError")
    ELSE
    LET E == Engine(G)
        player_state == CurrentRound(E).player_states[player_id]
        validation == validate_second_chance_usage(player_state, card_to_discard)
    IN  IF ~validation.is_valid THEN Raise(G, validation.error_message)
        ELSE
        LET without_duplicate == RemoveFirst(player_state.cards_in_hand, card_to_discard)
            second_chance_cards == SelectSeq(without_duplicate, IsSecondChance)
        IN  IF second_chance_cards = <<>>
            \* next(...) finds no Second Chance card: StopIteration leaves the
            \* method after the duplicate was removed from the hand.
            THEN [gs |-> Some(SetPlayerObject(E, player_id,
                                  [player_state EXCEPT
                                      !.cards_in_hand = without_duplicate]).gs),
                  ev |-> E.ev,
                  result |-> "StopIteration"]
            ELSE
            LET removed == SetPlayerObject(E, player_id,
                               [player_state EXCEPT
                                   !.cards_in_hand =
                                       RemoveFirst(without_duplicate, second_chance_cards[1]),
                                   !.has_second_chance = FALSE])
                scored == _update_player_score(removed, player_id)
            IN  Return(Log(scored,
                           [event_type |-> "second_chance_used",
                            player_id |-> player_id,
                            discarded_card_value |-> card_to_discard.value,
                            round_number |-> CurrentRound(E).round_number]))

end_round(G) ==
    IF NoActiveRound(G) THEN Raise(G, "No active round")
    ELSE IF G.gs[1].current_round = None THEN Raise(G, "AttributeError")
    ELSE Return(end_round_body(Engine(G)))

\* ------------------------------------------------------------------------
\* The state a session starts in.  GameEngine() has no game; GameEngine(
\* game_state, event_logger) resumes a saved game (gui/app.py).  A saved
\* game is what a recorded list of calls on a new engine left behind.
\* ------------------------------------------------------------------------
NoGame == [gs |-> None, ev |-> <<>>]

Fields(outcome) == [gs |-> outcome.gs, ev |-> outcome.ev]

\* One recorded call.  A deal pops a matching deck card when there is one.
Replay(G0, call) ==
    IF call.op = "start_new_game" THEN start_new_game(G0, call.game_id)
    ELSE IF call.op = "start_new_round" THEN start_new_round(G0)
    ELSE IF call.op = "deal_card_to_player"
         THEN deal_card_to_player(G0, call.player_id, call.card,
                  CHOOSE removed \in _remove_card_from_deck(G0.gs[1].deck, call.card) : TRUE)
    ELSE IF call.op = "apply_action_card_effect"
         THEN apply_action_card_effect(G0, call.card, call.player_id, call.original_player_id)
    ELSE IF call.op = "player_stay" THEN player_stay(G0, call.player_id)
    ELSE IF call.op = "use_second_chance"
         THEN use_second_chance(G0, call.player_id, call.card)
    ELSE end_round(G0)

RECURSIVE ReplayAll(_, _)
ReplayAll(G0, calls) ==
    IF calls = <<>> THEN G0
    ELSE CHOOSE G1 \in {ReplayAll(after, Tail(calls)) :
                           after \in {Fields(Replay(G0, Head(calls)))}} : TRUE

NewGame(game_id) == [op |-> "start_new_game", game_id |-> game_id]
NewRound == [op |-> "start_new_round"]
Deal(player_id, card) ==
    [op |-> "deal_card_to_player", player_id |-> player_id, card |-> card]
Apply(card, target_player_id, original_player_id) ==
    [op |-> "apply_action_card_effect", card |-> card, player_id |-> target_player_id,
     original_player_id |-> original_player_id]
Stay(player_id) == [op |-> "player_stay", player_id |-> player_id]
EndRoundCall == [op |-> "end_round"]

\* Thirteen faces worth (60 + 30) * 2 + 15 = 195 points, none of them a face
\* of DeckList.
SavedHand ==
    <<NumberCard(12, 0), NumberCard(11, 0), NumberCard(10, 0), NumberCard(9, 0),
      NumberCard(8, 0), NumberCard(6, 0), NumberCard(4, 0),
      ModifierCard("plus_2", 2, 0), ModifierCard("plus_4", 4, 0),
      ModifierCard("plus_6", 6, 0), ModifierCard("plus_8", 8, 0),
      ModifierCard("plus_10", 10, 0), ModifierCard("multiply_2", 2, 0)>>

DealHand(player_id, cards) == [i \in 1..Len(cards) |-> Deal(player_id, cards[i])]

\* A round in which both players are dealt SavedHand and stay: 195 each.
Round195 ==
    <<NewRound>> \o DealHand("p1", SavedHand) \o DealHand("p2", SavedHand)
    \o <<Stay("p1"), Stay("p2")>>

\* The first cards of the deck dealt by face: the first two to p1, the
\* others to p2.
DealDeck(count) ==
    [i \in 1..count |->
        Deal(IF i <= 2 THEN "p1" ELSE "p2", [create_deck[i] EXCEPT !.card_id = 0])]

\* The recorded calls of the saved games, by game id.
SavedCalls(game_id) ==
    <<NewGame(game_id)>> \o
    CASE game_id = "between_rounds" -> Round195
      [] game_id = "last_round" ->
            Round195 \o <<NewRound, Deal("p1", NumberCard(5, 0)),
                          Deal("p2", NumberCard(7, 0))>>
      [] game_id = "first_round" -> <<NewRound>>
      [] game_id = "deck_empty" -> <<NewRound>> \o DealDeck(DeckSize)
      [] game_id = "one_card_left" -> Round195 \o <<NewRound>> \o DealDeck(DeckSize - 1)
      [] game_id = "deck_empty_204" ->
            <<NewRound>> \o DealHand("p1", Append(SavedHand, NumberCard(7, 0)))
            \o DealDeck(DeckSize)
      [] game_id = "two_rounds" ->
            <<NewRound, Stay("p1"), Stay("p2"), NewRound, EndRoundCall>>
      [] game_id = "last_card_no_discard" -> <<NewRound>> \o DealDeck(DeckSize - 1)
      [] game_id = "last_card_duplicate" ->
            <<NewRound, Deal("p1", NumberCard(7, 0)), Deal("p2", NumberCard(7, 0)),
              Stay("p1"), Stay("p2"), NewRound>>
            \o DealDeck(DeckSize)
            \o <<Stay("p1"), Stay("p2"), NewRound, Deal("p1", NumberCard(7, 0))>>
      [] game_id = "full_hand" ->
            <<NewRound, Stay("p1")>>
            \o DealHand("p2", SubSeq(SavedHand, 1, 6) \o SubSeq(SavedHand, 8, 12))
      [] game_id = "flag_without_card" ->
            <<NewRound, Apply(ActionCard("second_chance", 0), "p1", None),
              Deal("p1", NumberCard(5, 0)), Deal("p1", NumberCard(5, 0)),
              Deal("p2", NumberCard(7, 0))>>
      [] game_id = "stayed_on_duplicates" ->
            <<NewRound, Deal("p1", NumberCard(7, 0)),
              Deal("p1", ActionCard("second_chance", 0)),
              Apply(ActionCard("second_chance", 0), "p1", Some("p1")),
              Deal("p1", NumberCard(7, 0)), Stay("p1")>>
      [] game_id = "busted" ->
            <<NewRound, Deal("p1", NumberCard(5, 0)), Deal("p1", NumberCard(5, 0))>>
      [] game_id = "second_chance" ->
            <<NewRound, Stay("p1"), Deal("p2", NumberCard(7, 0)),
              Deal("p2", ActionCard("second_chance", 0)),
              Apply(ActionCard("second_chance", 0), "p2", Some("p2"))>>
      [] game_id = "duplicates" ->
            <<NewRound, Stay("p1"), Deal("p2", NumberCard(7, 0)),
              Deal("p2", ActionCard("second_chance", 0)),
              Apply(ActionCard("second_chance", 0), "p2", Some("p2")),
              Deal("p2", NumberCard(7, 0)), Deal("p2", NumberCard(7, 0))>>
      [] game_id = "flip_three" ->
            <<NewRound, Apply(ActionCard("flip_three", 0), "p1", Some("p2"))>>
      [] game_id = "flip_three_owed" ->
            <<NewRound, Apply(ActionCard("flip_three", 0), "p1", Some("p2")),
              Deal("p1", ActionCard("freeze", 0)), Deal("p1", NumberCard(7, 0))>>

\* The saved game of a game id.
SavedGame(game_id) == ReplayAll(NoGame, SavedCalls(game_id))

\* The engines that resume the saved games of the game ids.
Resumed(game_ids) == {SavedGame(game_id) : game_id \in game_ids}

\* The session may append events while it has appended fewer than MaxEvents.
MayAppend == session_events < MaxEvents

\* ------------------------------------------------------------------------
\* What the driver passes in.  Driver-made cards carry card_id 0.
\* ------------------------------------------------------------------------
DealCards ==
    {NumberCard(5, 0), NumberCard(7, 0), ActionCard("second_chance", 0),
     ModifierCard("multiply_2", 2, 0)}

ActionCards ==
    {ActionCard("freeze", 0), ActionCard("flip_three", 0), ActionCard("second_chance", 0)}

OriginalPlayers == {None} \cup {Some(p) : p \in Players}

\* Cards the driver may name in use_second_chance: a number card of the
\* player's hand, or a number card it made itself.
DiscardCards(player_id) ==
    {c \in DealCards : IsNumber(c)}
    \cup (IF game_state # None /\ game_state[1].current_round # None
          THEN LET hand == game_state[1].current_round[1].player_states[player_id].cards_in_hand
               IN  {hand[i] : i \in {j \in 1..Len(hand) : IsNumber(hand[j])}}
          ELSE {})

G == [gs |-> game_state, ev |-> events]

\* A call is made while the session may still append events, or when it
\* appends nothing.
Call(outcome) ==
    /\ MayAppend \/ outcome.ev = events
    /\ game_state' = outcome.gs
    /\ events' = outcome.ev
    /\ result' = outcome.result
    /\ session_events' = session_events + Len(outcome.ev) - Len(events)

StartsFrom(starts) ==
    /\ \E start \in starts :
          /\ game_state = start.gs
          /\ events = start.ev
    /\ result = "ok"
    /\ session_events = 0

\* A new engine, a game between two rounds, a round just started.
Init ==
    StartsFrom({NoGame} \cup Resumed({"between_rounds", "first_round"}))

\* A round whose next deal from the deck empties it, a round whose deck is
\* empty.
InitDeck ==
    StartsFrom(Resumed({"one_card_left", "deck_empty"}))

\* A round in which a stay takes a total to the target: with cards left in
\* the deck, and with the deck empty (p1 holds 204 points).
InitTarget ==
    StartsFrom(Resumed({"last_round", "deck_empty_204"}))

\* Games with no, with one and with two completed rounds.
InitRounds ==
    StartsFrom(Resumed({"first_round", "between_rounds", "two_rounds"}))

\* First rounds in which every card dealt so far came from the deck.
InitCards ==
    StartsFrom({NoGame} \cup Resumed({"first_round", "deck_empty"}))

\* Rounds whose deck holds one card: with an empty discard pile, and with a
\* discard pile while p1 holds a card of the face of the deck's last card.
InitReshuffle ==
    StartsFrom(Resumed({"last_card_no_discard", "last_card_duplicate"}))

\* A round in which the deck's last card busts p1 and the discard pile is
\* reshuffled; a round in which a bust can end a game that a stay has won.
InitBustDeal ==
    StartsFrom(Resumed({"last_card_duplicate", "last_round"}))

\* A round in which p1 has stayed and p2 holds six number cards and the five
\* additive modifiers; a round with empty hands.
InitScore ==
    StartsFrom(Resumed({"full_hand", "first_round"}))

\* A round in which p1 has the Second Chance flag, two 5s and no Second
\* Chance card while p2 holds a 7; a game between two rounds.
InitWinners ==
    StartsFrom(Resumed({"flag_without_card", "between_rounds"}))

\* A round in which p1 has stayed on two 7s saved by a Second Chance that is
\* still held, while p2 plays on; a round just started.
InitLedger ==
    StartsFrom(Resumed({"stayed_on_duplicates", "first_round"}))

\* Rounds with a busted player, a held Second Chance, duplicates saved by it.
InitBust ==
    StartsFrom(Resumed({"busted", "second_chance", "duplicates"}))

\* Rounds with a Flip Three owed.
InitFlip ==
    StartsFrom(Resumed({"flip_three", "flip_three_owed"}))

\* A round that can take either player to the winning score, a game between
\* two rounds, a round whose deck is empty.
InitWin ==
    StartsFrom(Resumed({"last_round", "between_rounds", "deck_empty"}))

StartNewGame ==
    \E outcome \in {start_new_game(G, "new")} :
        /\ game_state' = outcome.gs
        /\ events' = outcome.ev
        /\ result' = outcome.result
        /\ session_events' = Len(outcome.ev)

StartNewRound ==
    \E outcome \in {start_new_round(G)} : Call(outcome)

DealCardToPlayer ==
    \E player_id \in Players, card \in DealCards :
        \E removed \in (IF game_state = None THEN {None}
                        ELSE _remove_card_from_deck(game_state[1].deck, card)) :
            \E outcome \in {deal_card_to_player(G, player_id, card, removed)} :
                Call(outcome)

ApplyActionCardEffect ==
    \E card \in ActionCards, target_player_id \in Players,
       original_player_id \in OriginalPlayers :
        \E outcome \in {apply_action_card_effect(G, card, target_player_id,
                                                 original_player_id)} :
            Call(outcome)

PlayerHit ==
    \E player_id \in Players :
        \E outcome \in {player_hit(G, player_id)} : Call(outcome)

PlayerStay ==
    \E player_id \in Players :
        \E outcome \in {player_stay(G, player_id)} : Call(outcome)

UseSecondChance ==
    \E player_id \in Players :
        \E card_to_discard \in DiscardCards(player_id) :
            \E outcome \in {use_second_chance(G, player_id, card_to_discard)} :
                Call(outcome)

EndRound ==
    \E outcome \in {end_round(G)} : Call(outcome)

Next ==
    \/ StartNewGame
    \/ StartNewRound
    \/ DealCardToPlayer
    \/ ApplyActionCardEffect
    \/ PlayerHit
    \/ PlayerStay
    \/ UseSecondChance
    \/ EndRound

Spec == Init /\ [][Next]_vars

SpecDeck == InitDeck /\ [][Next]_vars

SpecTarget == InitTarget /\ [][Next]_vars

SpecRounds == InitRounds /\ [][Next]_vars

SpecCards == InitCards /\ [][Next]_vars

SpecReshuffle == InitReshuffle /\ [][Next]_vars

SpecBustDeal == InitBustDeal /\ [][Next]_vars

SpecScore == InitScore /\ [][Next]_vars

SpecWinners == InitWinners /\ [][Next]_vars

SpecLedger == InitLedger /\ [][Next]_vars

SpecBust == InitBust /\ [][Next]_vars

SpecFlip == InitFlip /\ [][Next]_vars

SpecWin == InitWin /\ [][Next]_vars

\* ------------------------------------------------------------------------
\* Vocabulary of the properties
\* ------------------------------------------------------------------------
RoundActive == game_state # None /\ game_state[1].current_round # None

Round == game_state[1].current_round[1]

History == game_state[1].round_history

Resolved(player_state) == player_state.has_stayed \/ player_state.is_busted

\* A step of start_new_game: the log was replaced by a new one.
StartedGame ==
    /\ game_state' # game_state
    /\ events' # <<>>
    /\ events'[Len(events')].event_type = "game_started"

\* The events a step appended to the log.
Appended ==
    IF StartedGame THEN <<>> ELSE SubSeq(events', Len(events) + 1, Len(events'))

AppendedOfType(event_type) ==
    {i \in 1..Len(Appended) : Appended[i].event_type = event_type}

\* A step inside the active round: the round object before the step is the
\* one the players are read from after it.
InRoundStep == RoundActive /\ ~StartedGame /\ AppendedOfType("round_started") = {}

RoundAfter ==
    IF game_state'[1].current_round # None THEN game_state'[1].current_round[1]
    ELSE game_state'[1].round_history[Len(game_state'[1].round_history)]

IsApplied(event, action_type, p) ==
    /\ event.event_type = "action_card_applied"
    /\ event.action_type = action_type
    /\ event.player_id = p

\* ------------------------------------------------------------------------
\* C1: in every state with an active round, a player is busted exactly when
\* the hand holds two or more number cards of the same value and the player
\* holds no Second Chance (has_second_chance is false).
\* ------------------------------------------------------------------------
C1_BustedIffDuplicateWithoutSecondChance ==
    RoundActive =>
        \A p \in Players :
            Round.player_states[p].is_busted
            <=> /\ check_for_duplicate_cards(Round.player_states[p].cards_in_hand)
                /\ ~Round.player_states[p].has_second_chance

\* ------------------------------------------------------------------------
\* C2: in the active round and in every round of the history, a player with
\* is_busted = true has round_score = 0.
\* ------------------------------------------------------------------------
BustedScoresZero(round_state) ==
    \A p \in Players :
        round_state.player_states[p].is_busted
        => round_state.player_states[p].round_score = 0

C2_BustedRoundScoreIsZero ==
    game_state # None =>
        /\ RoundActive => BustedScoresZero(Round)
        /\ \A i \in 1..Len(History) : BustedScoresZero(History[i])

\* ------------------------------------------------------------------------
\* C3: no state has an active round in which every player has stayed or is
\* busted: resolving the last unresolved player ends the round in that call.
\* ------------------------------------------------------------------------
C3_ActiveRoundHasUnresolvedPlayer ==
    RoundActive => \E p \in Players : ~Resolved(Round.player_states[p])

\* ------------------------------------------------------------------------
\* C4: when apply_action_card_effect applies a Freeze to the only player of
\* the active round who has neither stayed nor busted, the round is ended in
\* that same call (current_round becomes None, the round is appended to
\* round_history with is_complete = true) and its end_reason is all-resolved.
\* ------------------------------------------------------------------------
OnlyUnresolved(p) ==
    /\ RoundActive
    /\ ~Resolved(Round.player_states[p])
    /\ \A q \in Players \ {p} : Resolved(Round.player_states[q])

FreezeApplied(p) == Appended # <<>> /\ IsApplied(Appended[1], "freeze", p)

EndedInCall ==
    /\ game_state'[1].current_round = None
    /\ game_state'[1].round_history = Append(History, RoundAfter)
    /\ RoundAfter.is_complete
    /\ RoundAfter.round_number = Round.round_number

C4_FreezeOnLastPlayerEndsRoundAllStayed ==
    [][\A p \in Players :
          OnlyUnresolved(p) /\ FreezeApplied(p)
          => EndedInCall /\ RoundAfter.end_reason = Some("all_stayed")]_vars

\* C4 as the code has it: the round is ended in that same call; its
\* end_reason is player-busted when some player of the round is busted and
\* all-resolved when none is.
C4_FreezeOnLastPlayerEndsRound ==
    [][\A p \in Players :
          OnlyUnresolved(p) /\ FreezeApplied(p)
          => /\ EndedInCall
             /\ RoundAfter.end_reason =
                    IF \E q \in Players : Round.player_states[q].is_busted
                    THEN Some("player_busted") ELSE Some("all_stayed")]_vars

\* A Freeze on the last unresolved player of a round without a bust has just
\* ended the round.
C4_Witness ==
    /\ game_state # None
    /\ game_state[1].current_round = None
    /\ History # <<>>
    /\ Len(events) >= 2
    /\ events[Len(events)].event_type = "round_ended"
    /\ \E p \in Players :
          /\ IsApplied(events[Len(events) - 1], "freeze", p)
          /\ History[Len(History)].player_states[p].has_stayed
          /\ \A q \in Players : ~History[Len(History)].player_states[q].is_busted
          /\ \A q \in Players : History[Len(History)].player_states[q].has_stayed
    /\ History[Len(History)].end_reason = Some("all_stayed")

\* ------------------------------------------------------------------------
\* C5: for a player with an active Flip Three, a dealt Action card leaves
\* flip_three_count unchanged, each dealt Number or Modifier card decrements
\* it by exactly one, and the effect is cleared (flip_three_active = false,
\* count = 0) exactly on the card that takes the count to zero; in general
\* the count changes only on a successful deal of a Number or Modifier card
\* to a player whose effect was active before that deal.
\* ------------------------------------------------------------------------
DealtTo(p) ==
    \E i \in AppendedOfType("card_dealt") : Appended[i].player_id = p

DealtCard(p) ==
    Appended[CHOOSE i \in AppendedOfType("card_dealt") : Appended[i].player_id = p].card

FlipThreeCountsOnDeal(p) ==
    LET before == Round.player_states[p]
        after == RoundAfter.player_states[p]
    IN  InRoundStep /\ DealtTo(p) /\ before.flip_three_active /\ before.flip_three_count > 0
        => IF IsAction(DealtCard(p))
           THEN /\ after.flip_three_count = before.flip_three_count
                /\ after.flip_three_active
           ELSE /\ after.flip_three_count = before.flip_three_count - 1
                /\ after.flip_three_active = (after.flip_three_count > 0)

C5_FlipThreeCountChangesOnlyOnDeal ==
    [][\A p \in Players :
          /\ FlipThreeCountsOnDeal(p)
          /\ InRoundStep
             /\ RoundAfter.player_states[p].flip_three_count
                    # Round.player_states[p].flip_three_count
             => /\ DealtTo(p)
                /\ ~IsAction(DealtCard(p))
                /\ Round.player_states[p].flip_three_active]_vars

\* C5 as the code has it: within a round the count decreases only on a
\* successful deal of a Number or Modifier card to a player whose effect was
\* active before that deal, by exactly one; the only other change is
\* apply_action_card_effect applying a Flip Three to the player, which sets
\* the count to 3.
C5_FlipThreeCount ==
    [][\A p \in Players :
          /\ FlipThreeCountsOnDeal(p)
          /\ InRoundStep
             /\ RoundAfter.player_states[p].flip_three_count
                    # Round.player_states[p].flip_three_count
             => \/ /\ DealtTo(p)
                   /\ ~IsAction(DealtCard(p))
                   /\ Round.player_states[p].flip_three_active
                   /\ RoundAfter.player_states[p].flip_three_count
                          = Round.player_states[p].flip_three_count - 1
                \/ /\ Appended # <<>>
                   /\ IsApplied(Appended[1], "flip_three", p)
                   /\ RoundAfter.player_states[p].flip_three_count = 3]_vars

\* A Flip Three applied to p1 was followed by one Action card and three
\* other cards, and is cleared.
C5_Witness ==
    /\ RoundActive
    /\ \E i \in 1..Len(events) : IsApplied(events[i], "flip_three", "p1")
    /\ LET player_state == Round.player_states["p1"]
           hand == player_state.cards_in_hand
       IN  /\ Len(hand) = 4
           /\ Cardinality({i \in 1..4 : IsAction(hand[i])}) = 1
           /\ IsAction(hand[1])
           /\ player_state.flip_three_count = 0
           /\ ~player_state.flip_three_active

\* ------------------------------------------------------------------------
\* C6: player_stay(p) on an active round is permitted exactly when p has not
\* stayed, is not busted and owes no Flip Three cards (not
\* (flip_three_active and flip_three_count > 0)); a denied call leaves the
\* whole game state and the event log unchanged.
\* ------------------------------------------------------------------------
C6_StayPermittedIff ==
    RoundActive =>
        \A p \in Players :
            LET player_state == Round.player_states[p]
                outcome == player_stay(G, p)
            IN  /\ outcome.result = "ok"
                   <=> /\ ~player_state.has_stayed
                       /\ ~player_state.is_busted
                       /\ ~(player_state.flip_three_active
                            /\ player_state.flip_three_count > 0)
                /\ outcome.result # "ok"
                   => outcome.gs = game_state /\ outcome.ev = events

\* A stay was just denied because Flip Three cards are owed; the player has
\* neither stayed nor busted.
C6_Witness ==
    /\ RoundActive
    /\ result = "Player must accept more cards (Flip Three active)"
    /\ \E p \in Players :
          /\ Round.player_states[p].flip_three_active
          /\ Round.player_states[p].flip_three_count > 0
          /\ ~Resolved(Round.player_states[p])

\* ------------------------------------------------------------------------
\* C7: after a permitted player_stay(p), p.has_stayed is true, p.round_score
\* is score(p.hand), p.total_score is its value before the call plus that
\* round_score, exactly one PlayerStayed event for p was appended, and the
\* stay itself changed no other player's hand, round_score or total_score
\* (when the stay ends the round, end_round banks the hand of a player who is
\* still unresolved).
\* ------------------------------------------------------------------------
Stayed(p) ==
    /\ Appended # <<>>
    /\ Appended[1].event_type = "player_stayed"
    /\ Appended[1].player_id = p

C7_StayBanksScore ==
    [][\A p \in Players :
          RoundActive /\ Stayed(p)
          => LET before == Round.player_states
                 after == RoundAfter.player_states
                 score(q) == calculate_score(before[q].cards_in_hand).final_score
             IN  /\ after[p].has_stayed
                 /\ after[p].cards_in_hand = before[p].cards_in_hand
                 /\ after[p].round_score = score(p)
                 /\ after[p].total_score = before[p].total_score + score(p)
                 /\ Cardinality(AppendedOfType("player_stayed")) = 1
                 /\ Appended[1].round_score = score(p)
                 /\ Appended[1].total_score = before[p].total_score + score(p)
                 /\ \A q \in Players \ {p} :
                       /\ after[q].cards_in_hand = before[q].cards_in_hand
                       /\ IF game_state'[1].current_round # None \/ Resolved(before[q])
                          THEN /\ after[q].round_score = before[q].round_score
                               /\ after[q].total_score = before[q].total_score
                          ELSE /\ after[q].round_score = score(q)
                               /\ after[q].total_score = before[q].total_score + score(q)]_vars

\* p1 has just stayed on a hand worth 5 with a total of 195 before the stay;
\* the round goes on.
C7_Witness ==
    /\ RoundActive
    /\ events[Len(events)].event_type = "player_stayed"
    /\ events[Len(events)].player_id = "p1"
    /\ Round.player_states["p1"].has_stayed
    /\ Round.player_states["p1"].round_score = 5
    /\ Round.player_states["p1"].total_score = 200

\* ------------------------------------------------------------------------
\* C8: deal_card_to_player(p, c) on an active round is permitted exactly
\* when p has not stayed, is not busted and the deck holds at least one card;
\* a permitted deal appends exactly one card to the end of p's hand and, if a
\* card matching c was in the deck, leaves the deck one card smaller (before
\* any reshuffle); a denied deal leaves the game state and the event log
\* unchanged.
\* ------------------------------------------------------------------------
\* The player's state after a call, in the round the call was made on.
PlayerIn(gs, p) ==
    IF gs[1].current_round # None THEN gs[1].current_round[1].player_states[p]
    ELSE gs[1].round_history[Len(gs[1].round_history)].player_states[p]

DealContract(p, c, removed) ==
    LET player_state == Round.player_states[p]
        deck == game_state[1].deck
        outcome == deal_card_to_player(G, p, c, removed)
        popped == deck (-) SetToBag({removed[1]})
    IN  /\ outcome.result = "ok"
           <=> /\ ~player_state.has_stayed
               /\ ~player_state.is_busted
               /\ BagCardinality(deck) > 0
        /\ outcome.result = "ok"
           => /\ PlayerIn(outcome.gs, p).cards_in_hand
                     = Append(player_state.cards_in_hand,
                              IF removed = None THEN c ELSE removed[1])
              /\ removed # None
                 => /\ BagCardinality(popped) = BagCardinality(deck) - 1
                    /\ outcome.gs[1].deck =
                           IF BagCardinality(popped) = 0
                              /\ Len(game_state[1].discard_pile) > 0
                           THEN SeqToBag(game_state[1].discard_pile)
                           ELSE popped
        /\ outcome.result # "ok"
           => outcome.gs = game_state /\ outcome.ev = events

C8_DealPermittedIff ==
    RoundActive =>
        \A p \in Players, c \in DealCards :
            \A removed \in _remove_card_from_deck(game_state[1].deck, c) :
                DealContract(p, c, removed)

\* A deal was just denied on an empty deck to players who have neither stayed
\* nor busted.
C8_Witness ==
    /\ RoundActive
    /\ result = "Deck is empty"
    /\ BagCardinality(game_state[1].deck) = 0
    /\ \A p \in Players : ~Resolved(Round.player_states[p])
    /\ events[Len(events)].event_type = "card_dealt"

\* ------------------------------------------------------------------------
\* C9: whenever current_round is None, each of deal_card_to_player,
\* apply_action_card_effect, player_hit, player_stay, use_second_chance and
\* end_round fails with "No active round" and leaves the game state and the
\* event log unchanged; start_new_round makes a round active again unless
\* the game is complete.
\* ------------------------------------------------------------------------
DeniedNoActiveRound(outcome) ==
    /\ outcome.result = "No active round"
    /\ outcome.gs = game_state
    /\ outcome.ev = events

C9_NoActiveRoundDeniesAll ==
    ~RoundActive =>
        /\ \A p \in Players :
              /\ \A c \in DealCards :
                    DeniedNoActiveRound(deal_card_to_player(G, p, c, None))
              /\ \A c \in ActionCards, original \in OriginalPlayers :
                    DeniedNoActiveRound(apply_action_card_effect(G, c, p, original))
              /\ DeniedNoActiveRound(player_hit(G, p))
              /\ DeniedNoActiveRound(player_stay(G, p))
              /\ \A c \in DiscardCards(p) :
                    DeniedNoActiveRound(use_second_chance(G, p, c))
        /\ DeniedNoActiveRound(end_round(G))
        /\ game_state # None /\ ~game_state[1].is_complete
           => start_new_round(G).gs[1].current_round # None

\* A call was just denied for want of an active round, after a round ended.
C9_Witness ==
    /\ game_state # None
    /\ game_state[1].current_round = None
    /\ History # <<>>
    /\ result = "No active round"

\* ------------------------------------------------------------------------
\* C10: after every round end the game is complete (is_complete = true,
\* winner_id set, one GameEnded event appended) exactly when some player's
\* total_score in the round just completed is at least 200; the winner is
\* then a player whose total_score is the maximum over all players.
\* ------------------------------------------------------------------------
RoundEnds ==
    /\ game_state # None
    /\ game_state' # None
    /\ Len(game_state'[1].round_history) = Len(History) + 1

C10_GameEndsAtTarget ==
    [][RoundEnds =>
          LET after == game_state'[1]
              totals == [p \in Players |-> RoundAfter.player_states[p].total_score]
          IN  /\ game_state'[1].current_round = None
              /\ after.is_complete <=> \E p \in Players : totals[p] >= 200
              /\ after.is_complete
                 => /\ after.winner_id # None
                    /\ after.winner_id[1] \in Players
                    /\ \A q \in Players : totals[after.winner_id[1]] >= totals[q]
                    /\ Cardinality(AppendedOfType("game_ended")) = 1
                    /\ Appended[Len(Appended)].event_type = "game_ended"
                    /\ Appended[Len(Appended)].winner_id = after.winner_id[1]
              /\ ~after.is_complete
                 => /\ after.winner_id = None
                    /\ AppendedOfType("game_ended") = {}]_vars

\* The round ended with totals 200 and 202: the game is complete and p2, who
\* reached the target second but holds the higher total, is the winner.
C10_Witness ==
    /\ game_state # None
    /\ game_state[1].is_complete
    /\ game_state[1].winner_id = Some("p2")
    /\ History[Len(History)].player_states["p1"].total_score = 200
    /\ History[Len(History)].player_states["p2"].total_score = 202
    /\ events[Len(events)].event_type = "game_ended"

\* ------------------------------------------------------------------------
\* C11: the game never completes while a round is active (current_round is
\* not None implies is_complete = false), is_complete changes from false to
\* true only in a step that ends a round, and a stay or Freeze that takes a
\* player's total_score to 200 or more while another player is unresolved
\* neither ends the game nor ends the round nor marks the player busted.
\* ------------------------------------------------------------------------
Completes ==
    /\ game_state # None
    /\ ~StartedGame
    /\ ~game_state[1].is_complete
    /\ game_state'[1].is_complete

\* A stay of p or a Freeze on p has banked a total at or over the target.
BankedTarget(p) ==
    /\ InRoundStep
    /\ Stayed(p) \/ FreezeApplied(p)
    /\ RoundAfter.player_states[p].total_score >= WINNING_SCORE

OthersUnresolved(p) ==
    \E q \in Players \ {p} : ~Resolved(Round.player_states[q])

C11_NoGameEndMidRoundAtTarget ==
    /\ [](RoundActive => ~game_state[1].is_complete)
    /\ [][/\ Completes => RoundEnds
          /\ \A p \in Players :
                BankedTarget(p) /\ OthersUnresolved(p)
                => /\ game_state'[1].current_round # None
                   /\ ~game_state'[1].is_complete
                   /\ RoundAfter.player_states[p].is_busted
                          = Round.player_states[p].is_busted]_vars

\* C11 as the code has it: a stay or Freeze that takes a total to 200 or more
\* while another player is unresolved ends the round (and with it the game)
\* exactly when the round's cards_remaining_in_deck is not positive; it never
\* marks the player busted.
C11_NoGameEndMidRound ==
    /\ [](RoundActive => ~game_state[1].is_complete)
    /\ [][/\ Completes => RoundEnds
          /\ \A p \in Players :
                BankedTarget(p) /\ OthersUnresolved(p)
                => /\ game_state'[1].current_round = None
                      <=> Round.cards_remaining_in_deck <= 0
                   /\ game_state'[1].is_complete
                      <=> Round.cards_remaining_in_deck <= 0
                   /\ RoundAfter.player_states[p].is_busted
                          = Round.player_states[p].is_busted]_vars

\* p1 has stayed on a total of 200 while p2, under an active Flip Three, is
\* unresolved: the round is active and the game is not complete.
C11_Witness ==
    /\ RoundActive
    /\ ~game_state[1].is_complete
    /\ game_state[1].winner_id = None
    /\ Round.player_states["p1"].has_stayed
    /\ ~Round.player_states["p1"].is_busted
    /\ Round.player_states["p1"].total_score >= WINNING_SCORE
    /\ ~Resolved(Round.player_states["p2"])
    /\ Round.player_states["p2"].flip_three_active
    /\ Round.cards_remaining_in_deck > 0

\* ------------------------------------------------------------------------
\* C12: once is_complete is true, start_new_round is denied and every
\* operation other than start_new_game leaves the game state (is_complete,
\* winner_id, round_history) and the event log unchanged; winner_id is set
\* once, in the step that completes the game, and never changed afterwards.
\* ------------------------------------------------------------------------
DeniedUnchanged(outcome) ==
    /\ outcome.result # "ok"
    /\ outcome.gs = game_state
    /\ outcome.ev = events

C12_CompleteGameIsFinal ==
    /\ [](game_state # None /\ game_state[1].is_complete
          => /\ game_state[1].winner_id # None
             /\ start_new_round(G).result = "Game is already complete"
             /\ DeniedUnchanged(start_new_round(G))
             /\ DeniedUnchanged(end_round(G))
             /\ \A p \in Players :
                   /\ \A c \in DealCards :
                         DeniedUnchanged(deal_card_to_player(G, p, c, None))
                   /\ \A c \in ActionCards, original \in OriginalPlayers :
                         DeniedUnchanged(apply_action_card_effect(G, c, p, original))
                   /\ DeniedUnchanged(player_hit(G, p))
                   /\ DeniedUnchanged(player_stay(G, p))
                   /\ \A c \in DiscardCards(p) :
                         DeniedUnchanged(use_second_chance(G, p, c)))
    /\ [][game_state # None /\ ~StartedGame
          /\ game_state'[1].winner_id # game_state[1].winner_id
          => /\ game_state[1].winner_id = None
             /\ Completes
             /\ RoundEnds]_vars

\* The game is complete with a winner, and a start_new_round was just denied.
C12_Witness ==
    /\ game_state # None
    /\ game_state[1].is_complete
    /\ game_state[1].winner_id # None
    /\ events[Len(events)].event_type = "game_ended"
    /\ result = "Game is already complete"

\* ------------------------------------------------------------------------
\* C13: every round started by start_new_round has round_number n = number
\* of completed rounds + 1 and as dealer the player at index (n-1) mod
\* player_count of the player list; so over any player_count consecutive
\* rounds each player is dealer exactly once, and consecutive rounds have
\* different dealers.
\* ------------------------------------------------------------------------
\* The rounds of the game in the order they were started: the completed ones
\* and the active one.
Rounds == IF RoundActive THEN Append(History, Round) ELSE History

PlayerCount == Len(game_state[1].players)

C13_DealerRotation ==
    game_state # None =>
        /\ \A n \in 1..Len(Rounds) :
              /\ Rounds[n].round_number = n
              /\ Rounds[n].dealer_id = game_state[1].players[((n - 1) % PlayerCount) + 1]
        /\ \A n \in 1..(Len(Rounds) - PlayerCount + 1) :
              \A p \in Players :
                  Cardinality({k \in n..(n + PlayerCount - 1) : Rounds[k].dealer_id = p}) = 1
        /\ \A n \in 1..(Len(Rounds) - 1) : Rounds[n].dealer_id # Rounds[n + 1].dealer_id

\* start_new_round has just started round 3: the dealers of rounds 1, 2 and 3
\* are p1, p2 and p1.
C13_Witness ==
    /\ RoundActive
    /\ events[Len(events)].event_type = "round_started"
    /\ Round.round_number = 3
    /\ Len(History) = 2
    /\ History[1].dealer_id = "p1"
    /\ History[2].dealer_id = "p2"
    /\ Round.dealer_id = "p1"

\* ------------------------------------------------------------------------
\* C14: immediately after start_new_round every player's total_score is the
\* player's total_score at the end of the most recently completed round (0
\* in the first round) and every round-scoped field is fresh: empty hand,
\* round_score 0, has_stayed, is_busted, has_second_chance and
\* flip_three_active false, flip_three_count 0.
\* ------------------------------------------------------------------------
FreshWithTotal(player_state, p, total) ==
    /\ player_state.player_id = p
    /\ player_state.total_score = total
    /\ player_state.cards_in_hand = <<>>
    /\ player_state.round_score = 0
    /\ ~player_state.has_stayed
    /\ ~player_state.is_busted
    /\ ~player_state.has_second_chance
    /\ ~player_state.flip_three_active
    /\ player_state.flip_three_count = 0

C14_NewRoundCarriesTotals ==
    game_state # None /\ ~game_state[1].is_complete =>
        LET outcome == start_new_round(G)
        IN  /\ outcome.result = "ok"
            /\ outcome.gs[1].current_round # None
            /\ DOMAIN outcome.gs[1].current_round[1].player_states = Players
            /\ \A p \in Players :
                  FreshWithTotal(outcome.gs[1].current_round[1].player_states[p], p,
                                 IF History = <<>> THEN 0
                                 ELSE History[Len(History)].player_states[p].total_score)

\* Round 2 has just been started after a round that left both players with a
\* round_score and a total of 195: both start with an empty hand and 195.
C14_Witness ==
    /\ RoundActive
    /\ events[Len(events)].event_type = "round_started"
    /\ Round.round_number = 2
    /\ \A p \in Players :
          /\ History[1].player_states[p].total_score = 195
          /\ History[1].player_states[p].cards_in_hand # <<>>
          /\ FreshWithTotal(Round.player_states[p], p, 195)

\* ------------------------------------------------------------------------
\* C15: card conservation.  In every state of a game the cards of the deck,
\* of the discard pile and of the hands of the active round are together
\* exactly the cards of the deck built at start_new_game: no operation
\* duplicates a card or loses one.
\* ------------------------------------------------------------------------
\* The cards held in the hands of the active round.
HandCards ==
    IF RoundActive
    THEN SeqToBag(Concat([i \in 1..Len(PlayerIds) |->
                             Round.player_states[PlayerIds[i]].cards_in_hand]))
    ELSE EmptyBag

CardsInGame ==
    game_state[1].deck (+) SeqToBag(game_state[1].discard_pile) (+) HandCards

C15_CardConservation ==
    game_state # None => CardsInGame = shuffle_deck(create_deck)

\* ------------------------------------------------------------------------
\* C16: when a successful deal_card_to_player removes the last card of the
\* deck while the discard pile is non-empty, then when the call returns the
\* deck holds exactly the cards that were in the discard pile, the discard
\* pile is empty, cards_remaining_in_deck is the new deck size and exactly
\* one DeckReshuffled event was appended, before the CardDealt event of the
\* deal; when the discard pile is empty there is no reshuffle and no
\* DeckReshuffled event.
\* ------------------------------------------------------------------------
\* A deal to p has removed the one card the deck held.
LastCardDealt(p) ==
    /\ InRoundStep
    /\ DealtTo(p)
    /\ BagCardinality(game_state[1].deck) = 1
    /\ \E deck_card \in BagToSet(game_state[1].deck) :
          _cards_match(DealtCard(p), deck_card)

\* The deck, the deck count and the events of a deal that reshuffled.
Reshuffled ==
    /\ game_state'[1].deck = SeqToBag(game_state[1].discard_pile)
    /\ RoundAfter.cards_remaining_in_deck = BagCardinality(game_state'[1].deck)
    /\ Cardinality(AppendedOfType("deck_reshuffled")) = 1
    /\ \A i \in AppendedOfType("deck_reshuffled"), j \in AppendedOfType("card_dealt") :
          /\ i < j
          /\ Appended[i].cards_reshuffled = Len(game_state[1].discard_pile)

NotReshuffled ==
    /\ game_state'[1].deck = EmptyBag
    /\ RoundAfter.cards_remaining_in_deck = 0
    /\ AppendedOfType("deck_reshuffled") = {}

\* The hands of the round, in the order end_round discards them.
HandsOf(round_state) ==
    Concat([i \in 1..Len(PlayerIds) |->
               round_state.player_states[PlayerIds[i]].cards_in_hand])

C16_LastCardReshufflesDiscardEmptied ==
    [][\A p \in Players :
          LastCardDealt(p)
          => IF game_state[1].discard_pile # <<>>
             THEN Reshuffled /\ game_state'[1].discard_pile = <<>>
             ELSE NotReshuffled]_vars

\* C16 as the code has it: the discard pile is empty when the call returns
\* unless the dealt card busted the last unresolved player, in which case the
\* round ended in the same call and the discard pile holds the hands of that
\* round.
C16_LastCardReshuffles ==
    [][\A p \in Players :
          LastCardDealt(p)
          => IF game_state[1].discard_pile # <<>>
             THEN /\ Reshuffled
                  /\ game_state'[1].discard_pile =
                         IF game_state'[1].current_round = None
                         THEN HandsOf(RoundAfter) ELSE <<>>
                  /\ game_state'[1].current_round = None
                     <=> /\ RoundAfter.player_states[p].is_busted
                         /\ \A q \in Players : Resolved(RoundAfter.player_states[q])
             ELSE NotReshuffled]_vars

\* The last card of the deck has just been dealt and the discard pile
\* reshuffled into the deck; the round goes on.
C16_Witness ==
    /\ RoundActive
    /\ Len(events) >= 2
    /\ events[Len(events)].event_type = "card_dealt"
    /\ events[Len(events) - 1].event_type = "deck_reshuffled"
    /\ game_state[1].discard_pile = <<>>
    /\ BagCardinality(game_state[1].deck) = events[Len(events) - 1].cards_reshuffled
    /\ Round.cards_remaining_in_deck = BagCardinality(game_state[1].deck)
    /\ Round.cards_remaining_in_deck > 0

\* ------------------------------------------------------------------------
\* C17: in every state with an active round, for every player,
\* has_second_chance is true exactly when exactly one Second Chance action
\* card is in the player's hand.
\* ------------------------------------------------------------------------
SecondChanceCards(player_state) ==
    Len(SelectSeq(player_state.cards_in_hand, IsSecondChance))

C17_SecondChanceFlagIffOneCard ==
    RoundActive =>
        \A p \in Players :
            Round.player_states[p].has_second_chance
            <=> SecondChanceCards(Round.player_states[p]) = 1

\* ------------------------------------------------------------------------
\* C18: apply_action_card_effect with a Second Chance card whose
\* original_player_id is the target, a player who already holds a Second
\* Chance, is denied and leaves every player state and the event log
\* unchanged; applying the card afterwards to a different player who holds
\* none succeeds, sets that player's has_second_chance and moves exactly one
\* Second Chance card from the original player's hand to the target's hand.
\* ------------------------------------------------------------------------
SecondChance == ActionCard("second_chance", 0)

\* The outcome of giving the Second Chance card of p's hand to q.
GivenAway(p, q, outcome) ==
    LET before == Round.player_states
        after == outcome.gs[1].current_round[1].player_states
        sc_card_in_hand == SelectSeq(before[p].cards_in_hand, IsSecondChance)[1]
    IN  /\ outcome.result = "ok"
        /\ outcome.gs[1].current_round # None
        /\ after[q] = [before[q] EXCEPT
                          !.has_second_chance = TRUE,
                          !.cards_in_hand = Append(@, sc_card_in_hand)]
        /\ after[p] = [before[p] EXCEPT
                          !.cards_in_hand = RemoveFirst(@, sc_card_in_hand)]
        /\ SecondChanceCards(after[p]) = SecondChanceCards(before[p]) - 1
        /\ SecondChanceCards(after[q]) = SecondChanceCards(before[q]) + 1
        /\ outcome.ev = Append(events, [event_type |-> "action_card_applied",
                                        player_id |-> q,
                                        action_type |-> "second_chance",
                                        original_name |-> Some(p)])

C18_SecondSecondChanceGoesToOpponent ==
    RoundActive =>
        \A p \in Players :
            Round.player_states[p].has_second_chance
            => /\ LET outcome == apply_action_card_effect(G, SecondChance, p, Some(p))
                  IN  /\ outcome.result = "Player already has a Second Chance card"
                      /\ outcome.gs = game_state
                      /\ outcome.ev = events
               /\ \A q \in Players \ {p} :
                     /\ ~Round.player_states[q].has_second_chance
                     /\ SecondChanceCards(Round.player_states[p]) > 0
                     => GivenAway(p, q, apply_action_card_effect(G, SecondChance, q, Some(p)))

\* p2, who holds a Second Chance, was dealt another one; applying it to p2 was
\* just denied, and p1 holds none.
C18_Witness ==
    /\ RoundActive
    /\ result = "Player already has a Second Chance card"
    /\ Round.player_states["p2"].has_second_chance
    /\ SecondChanceCards(Round.player_states["p2"]) = 2
    /\ ~Round.player_states["p1"].has_second_chance
    /\ SecondChanceCards(Round.player_states["p1"]) = 0

\* ------------------------------------------------------------------------
\* C19: apply_action_card_effect with a Freeze or a Flip Three card aimed at
\* a player who has already stayed is denied; the target's has_stayed,
\* round_score, total_score, flip_three_active and flip_three_count, every
\* other player's state and the event log are unchanged.
\* ------------------------------------------------------------------------
C19_StayedTargetDenied ==
    RoundActive =>
        \A p \in Players :
            Round.player_states[p].has_stayed
            => \A c \in {ActionCard("freeze", 0), ActionCard("flip_three", 0)},
                  original \in OriginalPlayers :
                   LET outcome == apply_action_card_effect(G, c, p, original)
                   IN  /\ outcome.result = "Cannot apply to player who has already stayed"
                       /\ outcome.gs = game_state
                       /\ outcome.ev = events

\* A Freeze or Flip Three aimed at p1, who stayed with a banked score, was
\* just denied; p2 is still playing.
C19_Witness ==
    /\ RoundActive
    /\ result = "Cannot apply to player who has already stayed"
    /\ Round.player_states["p1"].has_stayed
    /\ Round.player_states["p1"].round_score > 0
    /\ ~Round.player_states["p1"].flip_three_active
    /\ ~Resolved(Round.player_states["p2"])

\* ------------------------------------------------------------------------
\* C20: after a permitted Freeze on target t (applied by t or by another
\* player) t.has_stayed is true, t.round_score is score(t.hand), t.total_score
\* is its value before the call plus that round_score, one ActionApplied
\* event for t was appended, and the drawer's has_stayed, round_score and
\* total_score are unchanged when the drawer is not t.
\* ------------------------------------------------------------------------
HandScore(player_state) == calculate_score(player_state.cards_in_hand).final_score

\* The target of a Freeze after the call.
Frozen(t) ==
    LET before == Round.player_states[t]
        after == RoundAfter.player_states[t]
    IN  /\ after.has_stayed
        /\ after.cards_in_hand = before.cards_in_hand
        /\ after.round_score = HandScore(before)
        /\ after.total_score = before.total_score + HandScore(before)
        /\ Cardinality(AppendedOfType("action_card_applied")) = 1

\* d drew the Freeze card that was applied to another player.
DrewFor(d) == Appended[1].original_name = Some(d)

Untouched(d) ==
    /\ RoundAfter.player_states[d].has_stayed = Round.player_states[d].has_stayed
    /\ RoundAfter.player_states[d].round_score = Round.player_states[d].round_score
    /\ RoundAfter.player_states[d].total_score = Round.player_states[d].total_score

C20_FreezeBanksTargetDrawerUntouched ==
    [][\A t \in Players :
          InRoundStep /\ FreezeApplied(t)
          => /\ Frozen(t)
             /\ \A d \in Players \ {t} : DrewFor(d) => Untouched(d)]_vars

\* C20 as the code has it: the drawer is unchanged unless the round's
\* cards_remaining_in_deck is not positive and the drawer has neither stayed
\* nor busted; then the Freeze ends the round and end_round banks the
\* drawer's hand in the same call.
C20_FreezeBanksTarget ==
    [][\A t \in Players :
          InRoundStep /\ FreezeApplied(t)
          => /\ Frozen(t)
             /\ \A d \in Players \ {t} :
                   DrewFor(d)
                   => IF Round.cards_remaining_in_deck <= 0
                         /\ ~Resolved(Round.player_states[d])
                      THEN LET before == Round.player_states[d]
                               after == RoundAfter.player_states[d]
                           IN  /\ game_state'[1].current_round = None
                               /\ after.has_stayed = before.has_stayed
                               /\ after.round_score = HandScore(before)
                               /\ after.total_score
                                      = before.total_score + HandScore(before)
                      ELSE Untouched(d)]_vars

\* p1 has just frozen p2, who banked a hand worth 7 on a total of 195; p1 is
\* still playing with 195.
C20_Witness ==
    /\ RoundActive
    /\ IsApplied(events[Len(events)], "freeze", "p2")
    /\ events[Len(events)].original_name = Some("p1")
    /\ Round.player_states["p2"].has_stayed
    /\ Round.player_states["p2"].round_score = 7
    /\ Round.player_states["p2"].total_score = 202
    /\ ~Round.player_states["p1"].has_stayed
    /\ Round.player_states["p1"].total_score = 195

\* ------------------------------------------------------------------------
\* C21: after a use_second_chance(p, c) that the validator permits, p's hand
\* is the previous hand with the named card c and exactly one Second Chance
\* card removed (two cards fewer, the rest in order), p.has_second_chance is
\* false, p's score and bust status are those of the new hand, and exactly
\* one SecondChanceUsed event was appended.
\* ------------------------------------------------------------------------
DropAt(s, i) == SubSeq(s, 1, i - 1) \o SubSeq(s, i + 1, Len(s))

\* hand without one card equal to c and without one Second Chance card.
UsedOn(hand, c) ==
    {DropAt(DropAt(hand, i), j) :
        <<i, j>> \in {ij \in (1..Len(hand)) \X (1..(Len(hand) - 1)) :
                         /\ hand[ij[1]] = c
                         /\ IsSecondChance(DropAt(hand, ij[1])[ij[2]])}}

SecondChanceUsed(p, c) ==
    LET before == Round.player_states[p]
        outcome == use_second_chance(G, p, c)
        after == PlayerIn(outcome.gs, p)
    IN  /\ outcome.result = "ok"
        /\ after.cards_in_hand \in UsedOn(before.cards_in_hand, c)
        /\ Len(after.cards_in_hand) = Len(before.cards_in_hand) - 2
        /\ ~after.has_second_chance
        /\ after.is_busted = check_for_duplicate_cards(after.cards_in_hand)
        /\ after.round_score =
               IF after.is_busted THEN 0
               ELSE calculate_score(after.cards_in_hand).final_score
        /\ Len(outcome.ev) = Len(events) + 1
        /\ SubSeq(outcome.ev, 1, Len(events)) = events
        /\ outcome.ev[Len(outcome.ev)].event_type = "second_chance_used"
        /\ outcome.ev[Len(outcome.ev)].player_id = p

C21_SecondChanceUse ==
    RoundActive =>
        \A p \in Players :
            \A c \in DiscardCards(p) :
                validate_second_chance_usage(Round.player_states[p], c).is_valid
                => SecondChanceUsed(p, c)

\* ------------------------------------------------------------------------
\* C22: use_second_chance(p, c) is permitted iff p.has_second_chance is true,
\* the exact card c is in p's hand and the hand holds at least two number
\* cards of c's value; the three denials are checked in that order, each
\* reports its own reason, and a denied call changes nothing.
\* ------------------------------------------------------------------------
NoSecondChance == "Player does not have Second Chance card"
NotInHand == "Card to discard is not in player's hand"
NoDuplicate == "No duplicate found for card value"

NumberCardsOfValue(hand, v) ==
    Cardinality({i \in 1..Len(hand) : IsNumber(hand[i]) /\ hand[i].value = v})

SecondChanceUsePermittedIff(p, c) ==
    LET player_state == Round.player_states[p]
        hand == player_state.cards_in_hand
        outcome == use_second_chance(G, p, c)
        denied == outcome.result \in {NoSecondChance, NotInHand, NoDuplicate}
    IN  /\ ~denied <=> /\ player_state.has_second_chance
                       /\ InSeq(c, hand)
                       /\ NumberCardsOfValue(hand, c.value) >= 2
        /\ ~player_state.has_second_chance => outcome.result = NoSecondChance
        /\ player_state.has_second_chance /\ ~InSeq(c, hand)
           => outcome.result = NotInHand
        /\ player_state.has_second_chance /\ InSeq(c, hand)
           /\ NumberCardsOfValue(hand, c.value) < 2
           => outcome.result = NoDuplicate
        /\ denied => DeniedUnchanged(outcome)

C22_SecondChanceUsePermittedIff ==
    RoundActive =>
        \A p \in Players :
            \A c \in DiscardCards(p) : SecondChanceUsePermittedIff(p, c)

\* A use of the Second Chance was just denied for want of a duplicate: the
\* player has the flag and holds the named card.
C22_Witness ==
    /\ RoundActive
    /\ result = NoDuplicate
    /\ \E p \in Players :
          /\ Round.player_states[p].has_second_chance
          /\ \E c \in DiscardCards(p) :
                /\ InSeq(c, Round.player_states[p].cards_in_hand)
                /\ NumberCardsOfValue(Round.player_states[p].cards_in_hand, c.value) = 1

\* ------------------------------------------------------------------------
\* C23: the event log of a game is append-only.  Every operation other than
\* start_new_game leaves the log as it was, followed by zero or more new
\* events; start_new_game opens the log of the new game with its GameStarted
\* event; the first event of a game's log is its GameStarted event and the
\* log holds no other GameStarted event.
\* ------------------------------------------------------------------------
IsPrefix(old, log) ==
    /\ Len(old) <= Len(log)
    /\ SubSeq(log, 1, Len(old)) = old

GameStartedFirst(log) ==
    /\ log # <<>>
    /\ log[1].event_type = "game_started"
    /\ \A i \in 2..Len(log) : log[i].event_type # "game_started"

C23_LogAppendOnly ==
    /\ [](game_state # None => GameStartedFirst(events))
    /\ [][IF StartedGame
          THEN Len(events') = 1 /\ events'[1].game_id = game_state'[1].game_id
          ELSE IsPrefix(events, events')]_vars

\* A session has appended events to the log of a resumed game.
C23_Witness ==
    /\ game_state # None
    /\ session_events = MaxEvents
    /\ Len(events) > MaxEvents + 1
    /\ events[Len(events)].event_type # "game_started"

\* ------------------------------------------------------------------------
\* C24: every round that end_round ends (called by the driver or from within
\* another operation) gets its end_reason by priority: player-busted when a
\* player of the round is busted; otherwise all-resolved when every player
\* has stayed or is busted; otherwise deck-exhausted when the round's count
\* of cards remaining in the deck is zero.
\* ------------------------------------------------------------------------
AnyBusted(round_state) == \E p \in Players : round_state.player_states[p].is_busted

AllResolved(round_state) == \A p \in Players : Resolved(round_state.player_states[p])

ReasonByPriority(round_state) ==
    /\ AnyBusted(round_state) => round_state.end_reason = Some("player_busted")
    /\ ~AnyBusted(round_state) /\ AllResolved(round_state)
       => round_state.end_reason = Some("all_stayed")
    /\ ~AnyBusted(round_state) /\ ~AllResolved(round_state)
       /\ round_state.cards_remaining_in_deck = 0
       => round_state.end_reason = Some("deck_exhausted")

C24_EndReasonByPriority ==
    [][RoundEnds /\ ~StartedGame =>
          /\ RoundActive
          /\ RoundAfter.round_number = Round.round_number
          /\ AnyBusted(RoundAfter) = AnyBusted(Round)
             \/ AppendedOfType("player_busted") # {}
          /\ ReasonByPriority(RoundAfter)]_vars

\* A round has just ended with a busted player, every player resolved and no
\* card left in the deck: its end_reason is player-busted.
C24_Witness ==
    /\ game_state # None
    /\ game_state[1].current_round = None
    /\ History # <<>>
    /\ events[Len(events)].event_type = "round_ended"
    /\ AnyBusted(History[Len(History)])
    /\ AllResolved(History[Len(History)])
    /\ History[Len(History)].cards_remaining_in_deck = 0
    /\ History[Len(History)].end_reason = Some("player_busted")

\* ------------------------------------------------------------------------
\* C25: every round in round_history has is_complete = true and an
\* end_reason that is one of all-resolved, player-busted and deck-exhausted,
\* never absent, however the round was ended (an end_round call by the
\* driver included).
\* ------------------------------------------------------------------------
EndReasons == {Some("all_stayed"), Some("player_busted"), Some("deck_exhausted")}

C25_HistoryRoundsHaveEndReason ==
    game_state # None =>
        \A i \in 1..Len(History) :
            /\ History[i].is_complete
            /\ History[i].end_reason \in EndReasons

\* ------------------------------------------------------------------------
\* C26: for every completed round, winner_ids is exactly the set of the
\* players who are not busted and whose round_score, as stored in the
\* completed round, is the maximum among the players who are not busted:
\* ties give several winners and the list is empty only when every player
\* is busted.
\* ------------------------------------------------------------------------
NotBustedIn(round_state) ==
    {p \in Players : ~round_state.player_states[p].is_busted}

HighestScoring(round_state) ==
    {p \in NotBustedIn(round_state) :
        \A q \in NotBustedIn(round_state) :
            round_state.player_states[q].round_score
                <= round_state.player_states[p].round_score}

WinnersAreHighest(round_state) ==
    /\ {round_state.winner_ids[i] : i \in 1..Len(round_state.winner_ids)}
           = HighestScoring(round_state)
    /\ Len(round_state.winner_ids) = Cardinality(HighestScoring(round_state))
    /\ round_state.winner_ids = <<>> <=> NotBustedIn(round_state) = {}

C26_RoundWinners ==
    game_state # None => \A i \in 1..Len(History) : WinnersAreHighest(History[i])

\* ------------------------------------------------------------------------
\* C27: for every hand, calculate_score returns final_score = (base_score +
\* bonus_points) * multiplier + flip_bonus, where base_score is the sum of
\* the number-card values, bonus_points the sum of the additive modifiers,
\* multiplier is 2 iff a x2 modifier is in the hand, and flip_bonus is 15
\* when the hand has exactly 7 number cards and 0 otherwise (0 for 8 or
\* more too); action cards do not change the result, nor does the order of
\* the cards.  The hands are those the players hold, and their beginnings
\* and ends.
\* ------------------------------------------------------------------------
RECURSIVE SumAt(_, _)
SumAt(hand, positions) ==
    IF positions = {} THEN 0
    ELSE LET i == CHOOSE k \in positions : TRUE
         IN  hand[i].value + SumAt(hand, positions \ {i})

ScoredAsStated(hand) ==
    LET numbers == {i \in 1..Len(hand) : IsNumber(hand[i])}
        additive == {i \in 1..Len(hand) :
                        IsModifier(hand[i]) /\ hand[i].modifier_type # "multiply_2"}
        doubled == \E i \in 1..Len(hand) :
                       IsModifier(hand[i]) /\ hand[i].modifier_type = "multiply_2"
        score == calculate_score(hand)
        NotAction(c) == ~IsAction(c)
        Reverse(s) == [i \in 1..Len(s) |-> s[Len(s) + 1 - i]]
    IN  /\ score.base_score = SumAt(hand, numbers)
        /\ score.bonus_points = SumAt(hand, additive)
        /\ score.multiplier = IF doubled THEN 2 ELSE 1
        /\ score.flip_7_bonus = IF Cardinality(numbers) = 7 THEN 15 ELSE 0
        /\ score.final_score =
               (score.base_score + score.bonus_points) * score.multiplier
               + score.flip_7_bonus
        /\ calculate_score(SelectSeq(hand, NotAction)) = score
        /\ calculate_score(Reverse(hand)) = score

\* The beginnings and the ends of a hand, the hand itself included.
HandParts(hand) ==
    UNION {{SubSeq(hand, 1, k), SubSeq(hand, k + 1, Len(hand))} : k \in 0..Len(hand)}

\* The hands the players of the active round hold, their beginnings and ends.
ScoredHands ==
    UNION {HandParts(Round.player_states[p].cards_in_hand) : p \in Players}

EventTypes(log) == [i \in 1..Len(log) |-> log[i].event_type]

BustedByDeal(p) ==
    /\ InRoundStep
    /\ DealtTo(p)
    /\ ~Round.player_states[p].is_busted
    /\ RoundAfter.player_states[p].is_busted

BustDealEvents(p) ==
    LET reshuffled == LastCardDealt(p) /\ game_state[1].discard_pile # <<>>
        ended == game_state'[1].current_round = None
        won == \E q \in Players :
                   RoundAfter.player_states[q].total_score >= WINNING_SCORE
        busted == Appended[CHOOSE i \in AppendedOfType("player_busted") : TRUE]
    IN  /\ EventTypes(Appended) =
               (IF reshuffled THEN <<"deck_reshuffled">> ELSE <<>>)
               \o <<"card_dealt", "player_busted">>
               \o (IF ended THEN <<"round_ended">> ELSE <<>>)
               \o (IF ended /\ won THEN <<"game_ended">> ELSE <<>>)
        /\ busted.player_id = p
        /\ OnlyUnresolved(p) => ended
        /\ ended => /\ Len(game_state'[1].round_history) = Len(History) + 1
                    /\ game_state'[1].is_complete = won

GameEndedLast ==
    \A i \in 1..Len(events) :
        events[i].event_type = "game_ended"
        => /\ i = Len(events)
           /\ i > 1
           /\ events[i - 1].event_type = "round_ended"
           /\ events[i - 1].round_number = History[Len(History)].round_number
           /\ events[i].total_rounds = Len(History)

C28_BustDealEventOrder ==
    /\ [](game_state # None => GameEndedLast)
    /\ [][\A p \in Players : BustedByDeal(p) => BustDealEvents(p)]_vars

\* A deal has just busted the last unresolved player of a round in which
\* the other player had banked the winning score: the log ends with
\* CardDealt, PlayerBusted, RoundEnded, GameEnded.
C28_Witness ==
    /\ game_state # None
    /\ game_state[1].is_complete
    /\ Len(events) >= 4
    /\ SubSeq(EventTypes(events), Len(events) - 3, Len(events))
           = <<"card_dealt", "player_busted", "round_ended", "game_ended">>
    /\ \E p \in Players :
          /\ History[Len(History)].player_states[p].is_busted
          /\ events[Len(events) - 2].player_id = p
          /\ events[Len(events) - 3].player_id = p

\* ------------------------------------------------------------------------
\* C29: every apply_action_card_effect call that returns without a denial
\* (Freeze, Flip Three or Second Chance, any target, any original player or
\* none) appends exactly one ActionApplied event, which names the target; a
\* Second Chance applied to a target is denied, or it sets the target's
\* has_second_chance and is logged.
\* ------------------------------------------------------------------------
ActionAppliedLogged(card, target, outcome) ==
    LET appended == SubSeq(outcome.ev, Len(events) + 1, Len(outcome.ev))
        applied == {i \in 1..Len(appended) :
                       appended[i].event_type = "action_card_applied"}
    IN  /\ IsPrefix(events, outcome.ev)
        /\ Cardinality(applied) = 1
        /\ \A i \in applied : IsApplied(appended[i], card.action_type, target)
        /\ IsSecondChance(card) => PlayerIn(outcome.gs, target).has_second_chance

C29_AppliedActionIsLogged ==
    RoundActive =>
        \A card \in ActionCards, target \in Players, original \in OriginalPlayers :
            LET outcome == apply_action_card_effect(G, card, target, original)
            IN  outcome.result = "ok" => ActionAppliedLogged(card, target, outcome)

\* ------------------------------------------------------------------------
\* C30: for every player and round, whenever is_busted is true the log holds
\* a PlayerBusted event for that player and round number, and that event was
\* appended in the call in which is_busted became true, whichever operation
\* caused the bust.
\* ------------------------------------------------------------------------
BustEventOf(p, round_number, log) ==
    \E i \in 1..Len(log) :
        /\ log[i].event_type = "player_busted"
        /\ log[i].player_id = p
        /\ log[i].round_number = round_number

BustLogged(round_state, log) ==
    \A p \in Players :
        round_state.player_states[p].is_busted
        => BustEventOf(p, round_state.round_number, log)

BecameBusted(p) ==
    /\ InRoundStep
    /\ ~Round.player_states[p].is_busted
    /\ RoundAfter.player_states[p].is_busted

C30_BustIsLogged ==
    /\ [](game_state # None =>
             /\ RoundActive => BustLogged(Round, events)
             /\ \A i \in 1..Len(History) : BustLogged(History[i], events))
    /\ [][\A p \in Players :
             BecameBusted(p) => BustEventOf(p, Round.round_number, Appended)]_vars

\* ------------------------------------------------------------------------
\* C31: when a round ends while some player has neither stayed nor busted,
\* end_round sets that player's round_score to score(hand) and adds it to
\* total_score exactly once; players who already stayed (or were frozen) or
\* busted keep the total_score they had before end_round; and all cards of
\* all hands of the round are appended to the discard pile.  This holds for
\* end_round called on any state with an active round, and for the players
\* a call that ends the round did not itself act on.
\* ------------------------------------------------------------------------
\* q after end_round, given q before it.
FinalizedAtRoundEnd(before, after) ==
    IF Resolved(before)
    THEN after.total_score = before.total_score
    ELSE /\ after.round_score = HandScore(before)
         /\ after.total_score = before.total_score + HandScore(before)
         /\ after.cards_in_hand = before.cards_in_hand

C31_EndRoundFinalizesUnresolved ==
    /\ [](RoundActive =>
             LET outcome == end_round(G)
                 ended == outcome.gs[1].round_history[Len(outcome.gs[1].round_history)]
             IN  /\ outcome.result = "ok"
                 /\ outcome.gs[1].current_round = None
                 /\ Len(outcome.gs[1].round_history) = Len(History) + 1
                 /\ \A q \in Players :
                       FinalizedAtRoundEnd(Round.player_states[q],
                                           ended.player_states[q])
                 /\ outcome.gs[1].discard_pile
                        = game_state[1].discard_pile \o HandsOf(Round))
    /\ [][LET \* The players the step dealt a card to, that stayed or that
              \* an action card was applied to.
              ActedOn ==
                  {Appended[i].player_id :
                      i \in {j \in 1..Len(Appended) :
                                Appended[j].event_type
                                    \in {"card_dealt", "player_stayed",
                                         "action_card_applied"}}}
          IN  RoundEnds /\ ~StartedGame
              => /\ \A q \in Players \ ActedOn :
                       FinalizedAtRoundEnd(Round.player_states[q],
                                           RoundAfter.player_states[q])
                 /\ game_state'[1].discard_pile
                        \in {game_state[1].discard_pile \o HandsOf(RoundAfter),
                             HandsOf(RoundAfter)}]_vars

\* end_round has just ended the second round, in which p1 had stayed and p2,
\* who had neither stayed nor busted, held a hand worth 7 on a total of 195:
\* p2 has banked it and the hands follow those of the first round on the
\* discard pile.
C31_Witness ==
    /\ game_state # None
    /\ game_state[1].current_round = None
    /\ History # <<>>
    /\ result = "ok"
    /\ \E i \in 1..Len(events) :
          /\ events[i].event_type = "round_ended"
          /\ events[i].round_number = 2
          /\ events[i].player_scores["p2"] = 7
    /\ LET ended == History[Len(History)]
       IN  /\ ended.player_states["p1"].has_stayed
           /\ ~Resolved(ended.player_states["p2"])
           /\ HandScore(ended.player_states["p2"]) = 7
           /\ ended.player_states["p2"].round_score = 7
           /\ ended.player_states["p2"].total_score = 202
           /\ HandsOf(ended) # <<>>
           /\ game_state[1].discard_pile
                  = HandsOf(History[Len(History) - 1]) \o HandsOf(ended)

\* ------------------------------------------------------------------------
\* C32: a permitted Flip Three applied to target t sets t.flip_three_active
\* = true and t.flip_three_count = 3 (also when t already had a smaller
\* count owed) and changes nothing else: no card is drawn, no hand, deck,
\* score, has_stayed or is_busted value changes, the drawer's
\* flip_three_active is what it was (false for a drawer who owed nothing),
\* and one ActionCardApplied event is appended.
\* ------------------------------------------------------------------------
C32_FlipThreeSetsCountOnly ==
    RoundActive =>
        \A t \in Players, drawer \in OriginalPlayers :
            LET outcome ==
                    apply_action_card_effect(G, ActionCard("flip_three", 0), t, drawer)
            IN  /\ outcome.result = "ok" <=> ~Round.player_states[t].has_stayed
                /\ outcome.result = "ok" =>
                      /\ outcome.gs =
                             Some([game_state[1] EXCEPT
                                      !.current_round[1].player_states[t].flip_three_active
                                          = TRUE,
                                      !.current_round[1].player_states[t].flip_three_count
                                          = 3])
                      /\ Len(outcome.ev) = Len(events) + 1
                      /\ IsPrefix(events, outcome.ev)
                      /\ IsApplied(outcome.ev[Len(outcome.ev)], "flip_three", t)
                      /\ \A d \in Players \ {t} :
                            drawer = Some(d) /\ ~Round.player_states[d].flip_three_active
                            => ~outcome.gs[1].current_round[1].player_states[d].flip_three_active

\* p2 has just applied a Flip Three to p1, who owed two cards of an earlier
\* one and holds the two cards dealt since: p1 owes three again and p2 owes
\* none.
C32_Witness ==
    /\ RoundActive
    /\ result = "ok"
    /\ session_events = 1
    /\ IsApplied(events[Len(events)], "flip_three", "p1")
    /\ events[Len(events)].original_name = Some("p2")
    /\ Len(Round.player_states["p1"].cards_in_hand) = 2
    /\ \E i \in 1..2 : IsNumber(Round.player_states["p1"].cards_in_hand[i])
    /\ Round.player_states["p1"].flip_three_active
    /\ Round.player_states["p1"].flip_three_count = 3
    /\ ~Round.player_states["p2"].flip_three_active
    /\ Round.player_states["p2"].flip_three_count = 0

\* ------------------------------------------------------------------------
\* C33: a round is not ended implicitly (by deal_card_to_player, player_stay
\* or apply_action_card_effect) while some player has neither stayed nor
\* busted and the deck is non-empty, both as the call leaves them: in
\* particular one player busting leaves the round active, and the other
\* players can still be dealt cards and can stay (a stay being denied only
\* to a player who owes Flip Three cards).
\* ------------------------------------------------------------------------
C33_NoImplicitEndWhilePlayable ==
    /\ [](RoundActive =>
             \A p \in Players, q \in Players :
                 /\ p # q
                 /\ Round.player_states[p].is_busted
                 /\ ~Resolved(Round.player_states[q])
                 /\ game_state[1].deck # EmptyBag
                 => /\ \A card \in DealCards :
                          \A removed \in _remove_card_from_deck(game_state[1].deck, card) :
                              deal_card_to_player(G, q, card, removed).result = "ok"
                    /\ player_stay(G, q).result = "ok"
                       <=> ~(Round.player_states[q].flip_three_active
                             /\ Round.player_states[q].flip_three_count > 0))
    /\ [][LET \* A call other than end_round has ended the round.
              EndedImplicitly ==
                  /\ RoundEnds
                  /\ ~StartedGame
                  /\ Appended[1].event_type # "round_ended"
          IN  /\ EndedImplicitly
                 => \/ AllResolved(RoundAfter)
                    \/ game_state'[1].deck = EmptyBag
              /\ \A p \in Players :
                    /\ BustedByDeal(p)
                    /\ ~AllResolved(RoundAfter)
                    /\ game_state'[1].deck # EmptyBag
                    => /\ game_state'[1].current_round # None
                       /\ ~RoundAfter.is_complete
                       /\ game_state'[1].round_history = History]_vars

\* A deal has just busted p1 while p2 has neither stayed nor busted and the
\* deck holds a card: the round is active.
C33_Witness ==
    /\ RoundActive
    /\ session_events = 2
    /\ events[Len(events)].event_type = "player_busted"
    /\ events[Len(events)].player_id = "p1"
    /\ events[Len(events) - 1].event_type = "card_dealt"
    /\ Round.player_states["p1"].is_busted
    /\ ~Resolved(Round.player_states["p2"])
    /\ game_state[1].deck # EmptyBag
    /\ ~Round.is_complete

\* ------------------------------------------------------------------------
\* C34: in every state with an active round, if the persistent deck is
\* empty then the discard pile is empty too: a non-empty discard pile is
\* always reshuffled into an emptied deck, so no deal is denied as "Deck is
\* empty" (and no new round starts unable to deal) while discarded cards
\* exist.
\* ------------------------------------------------------------------------
C34_EmptyDeckMeansEmptyDiscard ==
    RoundActive =>
        /\ game_state[1].deck = EmptyBag => game_state[1].discard_pile = <<>>
        /\ game_state[1].discard_pile # <<>>
           => \A p \in Players, card \in DealCards :
                  \A removed \in _remove_card_from_deck(game_state[1].deck, card) :
                      deal_card_to_player(G, p, card, removed).result # "Deck is empty"

\* ------------------------------------------------------------------------
\* C35: a busted player forfeits all points for the round: for every player
\* who is busted in a completed round, the total_score stored for that
\* round equals the total_score the player had when the round started (the
\* total of the round before it, 0 in the first round), whatever operations
\* were applied to the player after the bust.
\* ------------------------------------------------------------------------
C35_BustedForfeitsRound ==
    game_state # None =>
        \A i \in 1..Len(History), p \in Players :
            History[i].player_states[p].is_busted
            => History[i].player_states[p].total_score
                   = IF i = 1 THEN 0 ELSE History[i - 1].player_states[p].total_score

\* ------------------------------------------------------------------------
\* C36: in every state, for every player of the active round and of every
\* round of the history: flip_three_count is in 0..3 and flip_three_active
\* is true if and only if flip_three_count > 0.
\* ------------------------------------------------------------------------
C36_FlipThreeActiveIffOwed ==
    game_state # None =>
        \A i \in 1..Len(Rounds), p \in Players :
            /\ Rounds[i].player_states[p].flip_three_count \in 0..3
            /\ Rounds[i].player_states[p].flip_three_active
               <=> Rounds[i].player_states[p].flip_three_count > 0

\* p1, to whom a Flip Three was applied, has been dealt two number cards
\* since: one card is still owed and the effect is active.
C36_Witness ==
    /\ RoundActive
    /\ session_events = 2
    /\ \E i \in 1..Len(events) : IsApplied(events[i], "flip_three", "p1")
    /\ Len(Round.player_states["p1"].cards_in_hand) = 2
    /\ \A i \in 1..2 : IsNumber(Round.player_states["p1"].cards_in_hand[i])
    /\ Round.player_states["p1"].flip_three_count = 1
    /\ Round.player_states["p1"].flip_three_active
    /\ ~Round.player_states["p2"].flip_three_active
    /\ Round.player_states["p2"].flip_three_count = 0

\* ------------------------------------------------------------------------
\* C37: score ledger.  For every player in every completed round,
\* total_score at the end of the round equals total_score at the start of
\* the round (the total of the round before it, 0 in the first round) plus
\* the round_score stored for that round: a round's points are banked into
\* total_score exactly once (by stay, by Freeze, or by the forced stay at
\* round end), never twice and never with a round_score that later differs.
\* ------------------------------------------------------------------------
C37_ScoreLedger ==
    game_state # None =>
        \A i \in 1..Len(History), p \in Players :
            History[i].player_states[p].total_score
                = (IF i = 1 THEN 0 ELSE History[i - 1].player_states[p].total_score)
                  + History[i].player_states[p].round_score

\* ------------------------------------------------------------------------
\* C38: within one game, a player's total_score never decreases across any
\* sequence of engine operations: points banked by a stay or Freeze are
\* never lost, including when start_new_round is called while a round is
\* still active.  A player's total_score is that of the active round, else
\* that of the last completed round, else 0.
\* ------------------------------------------------------------------------
C38_TotalNeverDecreases ==
    [][LET TotalBefore(p) ==
               IF Rounds # <<>> THEN Rounds[Len(Rounds)].player_states[p].total_score
               ELSE 0
           TotalAfter(p) ==
               IF game_state'[1].current_round # None
                  \/ game_state'[1].round_history # <<>>
               THEN RoundAfter.player_states[p].total_score
               ELSE 0
       IN  game_state # None /\ ~StartedGame
           => \A p \in Players : TotalAfter(p) >= TotalBefore(p)]_vars

\* ------------------------------------------------------------------------
\* C39: once a player has stayed (by player_stay or Freeze), that player's
\* hand, round_score and total_score are not changed by any later operation
\* of the same round (deal, apply_action_card_effect with any card,
\* use_second_chance) until the round ends.
\* ------------------------------------------------------------------------
C39_StayedPlayerIsFinal ==
    [][\A p \in Players :
          InRoundStep /\ Round.player_states[p].has_stayed
          => /\ RoundAfter.player_states[p].cards_in_hand
                    = Round.player_states[p].cards_in_hand
             /\ RoundAfter.player_states[p].round_score
                    = Round.player_states[p].round_score
             /\ RoundAfter.player_states[p].total_score
                    = Round.player_states[p].total_score]_vars

\* ------------------------------------------------------------------------
\* C40: use_second_chance is atomic: every call that ends in an error (a
\* validator denial or any other failure, e.g. the flag is set but no Second
\* Chance card is in the player's hand) leaves the player's hand,
\* has_second_chance, scores and the event log exactly as they were before
\* the call.
\* ------------------------------------------------------------------------
C40_SecondChanceUseAtomic ==
    RoundActive =>
        \A p \in Players :
            \A c \in DiscardCards(p) :
                LET outcome == use_second_chance(G, p, c)
                    before == Round.player_states[p]
                    after == outcome.gs[1].current_round[1].player_states[p]
                IN  outcome.result # "ok"
                    => /\ outcome.ev = events
                       /\ outcome.gs # None
                       /\ outcome.gs[1].current_round # None
                       /\ after.cards_in_hand = before.cards_in_hand
                       /\ after.has_second_chance = before.has_second_chance
                       /\ after.round_score = before.round_score
                       /\ after.total_score = before.total_score

====
